---- MODULE Spec2Model ----
(***************************************************************************)
(* State-machine model of the duel engine of duel_core:                    *)
(*   src/entities/player.py   Player (queue, cooldown, equipment, stats)   *)
(*   src/engine/combat.py     resolve_attack                               *)
(*   src/engine/tick_manager.py  TickManager                               *)
(*   src/main.py, src/duelsim/main.py  run_duel_simulation (driver loop)   *)
(* Python None is the string "None"; a formatted log message is the tuple  *)
(* of its template name and its arguments.                                 *)
(***************************************************************************)
EXTENDS Integers, Sequences, FiniteSets, TLC

VARIABLES
    players,       \* TickManager.players: registration index -> Player fields
    current_tick,  \* TickManager.current_tick
    duel_active,   \* TickManager.duel_active
    events,        \* TickManager.events
    pc,            \* position of the driver: "loop", "act", "update", "done", "equip"
    idx,           \* index of the player process_tick is about to process
    loop_tick,     \* the driver's local current_tick
    winner,        \* the outcome the driver determines after the loop
    driver,        \* which run_duel_simulation runs: "main" or "duelsim_main"
    submitted,     \* history: the number of add_action calls so far
    last_equip,    \* history: each player's last equip_item / unequip_item calls
    rules,         \* RuleSet.rules
    legal,         \* the list get_legal_actions returned last, and for which player
    call,          \* history: the last call of a function of engine/combat.py
    executed,      \* history: per player, for each action process_tick has
                   \* executed, the tick, the index the action had in the
                   \* queue and whether resolve_attack carried out an attack
    running,       \* DuelManager.running
    current_duel,  \* DuelManager.current_duel: None or the duel that was set
    duel_queue,    \* DuelManager.duel_queue
    main,          \* the thread that calls queue_duel and start_next_duel
    processor,     \* the thread that runs DuelManager._process_duels
    duel_thread    \* per duel, the thread start_next_duel starts for _run_duel

vars == <<players, current_tick, duel_active, events, pc, idx, loop_tick, winner,
          driver, submitted, last_equip, rules, legal, call, executed,
          running, current_duel, duel_queue, main, processor, duel_thread>>

\* the variables of the duel and of its engine
engineVars == <<players, current_tick, duel_active, events, pc, idx, loop_tick,
                winner, driver, submitted, last_equip, rules, legal, call,
                executed>>

\* the variables of the DuelManager and of its threads
managerVars == <<running, current_duel, duel_queue, main, processor, duel_thread>>

\* the variables of the rule set and of the direct calls into engine/combat.py
apiVars == <<rules, legal, call>>

----------------------------------------------------------------------------
(* Bounds of the model *)

\* max_ticks handed to run_duel_simulation
MaxTicks == 3
\* most add_action calls in one duel
MaxSubmit == 3

(* Program constants *)

\* Player.__init__: default attack_speed
DefaultAttackSpeed == 4
\* resolve_attack: strength // 7
BaseDamageDivisor == 7
\* resolve_attack: random.randint(0, 5)
MaxVariance == 5
\* resolve_attack: defender.defense / 400
DefenseDivisor == 400
\* resolve_attack: max(3, ...)
MinDamage == 3
\* duelsim/main.py: player.weapon_speed = 2
OverrideWeaponSpeed == 2
\* get_legal_actions: min(25, ...)
FixedHeal == 25

None == "None"
Players == {1, 2}
Other(p) == 3 - p
Name(p) == IF p = 1 THEN "Fighter1" ELSE "Fighter2"

Max(a, b) == IF a >= b THEN a ELSE b
Min(a, b) == IF a <= b THEN a ELSE b
Abs(a) == IF a >= 0 THEN a ELSE -a

\* the cells the players move to (inside the default 5 x 5 arena)
Cells == {<<1, 0>>, <<1, 1>>}
\* heal_amount of a submitted eat action
HealChoices == {25}

----------------------------------------------------------------------------
(* Items: duelsim/items/item.py *)

StatNames == {"hp", "attack", "strength", "defense", "magic", "ranged",
              "magic_defense", "ranged_defense", "attack_speed"}

\* list(ItemSlot), the order of Player.equipment
SlotOrder == <<"weapon", "head", "body", "legs", "hands", "feet", "ring", "amulet">>
Slots == {SlotOrder[i] : i \in 1..Len(SlotOrder)}

\* Items as ItemGenerator and simple_item_generator produce them: a slot,
\* sparse stat deltas, some on stats a Player does not have, and special effects.
\* the items handed to equip_item before a duel
ItemNames == {"Sword", "Staff", "Ring", "Amulet"}
Item(n) ==
    CASE n = "Sword"  -> [slot |-> "weapon",
                          stats |-> [s \in {"attack", "strength", "attack_speed"} |->
                                       IF s = "attack_speed" THEN -5 ELSE 6],
                          special_effects |-> <<[effect |-> "life_steal", value |-> 50]>>]
      [] n = "Staff"  -> [slot |-> "weapon",
                          stats |-> [s \in {"magic", "magic_damage", "attack_speed"} |->
                                       IF s = "attack_speed" THEN -3 ELSE 6],
                          special_effects |-> <<[effect |-> "poison_chance", value |-> 100]>>]
      [] n = "Ring"   -> [slot |-> "ring",
                          stats |-> [s \in {"strength", "defense"} |-> 2],
                          special_effects |-> <<[effect |-> "critical_chance", value |-> 50]>>]
      [] n = "Plate"  -> [slot |-> "body",
                          stats |-> [s \in {"defense"} |-> 4],
                          special_effects |-> <<[effect |-> "damage_reflection", value |-> 100]>>]
      [] n = "Amulet" -> [slot |-> "amulet",
                          stats |-> [s \in {"hp", "defense"} |->
                                       IF s = "hp" THEN 10 ELSE 3],
                          special_effects |-> <<[effect |-> "dodge_chance", value |-> 50],
                                                [effect |-> "damage_reflection", value |-> 50]>>]

NoEquipment == [s \in Slots |-> None]

----------------------------------------------------------------------------
(* Player: src/entities/player.py *)

\* Player.__init__: base_stats
BaseStats(hp, attack, strength, defense) ==
    [s \in StatNames |->
        CASE s = "hp" -> hp
          [] s = "attack" -> attack
          [] s = "strength" -> strength
          [] s = "defense" -> defense
          [] s = "magic" -> 1
          [] s = "ranged" -> 1
          [] s = "magic_defense" -> defense \div 2
          [] s = "ranged_defense" -> defense \div 2
          [] s = "attack_speed" -> DefaultAttackSpeed]

\* _update_effective_stats, the loop over self.equipment.items(): the bonuses of
\* the slots i..8 added to eff, a stat the player does not have being skipped
RECURSIVE AddEquipmentBonuses(_, _, _)
AddEquipmentBonuses(eff, equipment, i) ==
    IF i > Len(SlotOrder) THEN eff
    ELSE LET item == equipment[SlotOrder[i]]
             next == IF item = None THEN eff
                     ELSE [s \in DOMAIN eff |->
                             IF s \in DOMAIN Item(item).stats
                             THEN eff[s] + Item(item).stats[s]
                             ELSE eff[s]]
         IN AddEquipmentBonuses(next, equipment, i + 1)

\* _update_effective_stats without "self.effective_stats = self.base_stats.copy()":
\* the bonuses are added to the effective stats of before
UpdateEffectiveStatsStale(pl) ==
    LET eff == AddEquipmentBonuses(pl.effective_stats, pl.equipment, 1)
    IN [pl EXCEPT !.effective_stats = eff,
                  !.max_hp = eff["hp"],
                  !.hp = Min(pl.hp, eff["hp"]),
                  !.weapon_speed = eff["attack_speed"]]

\* Player._update_effective_stats
UpdateEffectiveStats(pl) ==
    LET eff == AddEquipmentBonuses(pl.base_stats, pl.equipment, 1)
    IN [pl EXCEPT !.effective_stats = eff,
                  !.max_hp = eff["hp"],
                  !.hp = Min(pl.hp, eff["hp"]),
                  !.weapon_speed = eff["attack_speed"]]

\* Player.__init__
NewPlayer(hp, attack, strength, defense) ==
    UpdateEffectiveStats(
        [max_hp |-> hp, hp |-> hp, attack |-> attack, strength |-> strength,
         defense |-> defense, position |-> <<0, 0>>, weapon_speed |-> 4,
         cooldown |-> 0, action_queue |-> <<>>, next_action |-> None,
         equipment |-> NoEquipment,
         base_stats |-> BaseStats(hp, attack, strength, defense),
         effective_stats |-> BaseStats(hp, attack, strength, defense)])

\* Player.equip_item
EquipItem(pl, item) ==
    IF Item(item).slot \in DOMAIN pl.equipment
    THEN UpdateEffectiveStats([pl EXCEPT !.equipment[Item(item).slot] = item])
    ELSE pl

\* unequip_item without its call of _update_effective_stats
UnequipItemNoUpdate(pl, slot) ==
    IF slot \in DOMAIN pl.equipment /\ pl.equipment[slot] # None
    THEN [pl EXCEPT !.equipment[slot] = None]
    ELSE pl

\* Player.unequip_item
UnequipItem(pl, slot) ==
    IF slot \in DOMAIN pl.equipment /\ pl.equipment[slot] # None
    THEN UpdateEffectiveStats([pl EXCEPT !.equipment[slot] = None])
    ELSE pl

\* Player.get_special_effects: the effects of the items in the slots i..8
RECURSIVE GetSpecialEffects(_, _)
GetSpecialEffects(pl, i) ==
    IF i > Len(SlotOrder) THEN <<>>
    ELSE (IF pl.equipment[SlotOrder[i]] = None THEN <<>>
          ELSE Item(pl.equipment[SlotOrder[i]]).special_effects)
         \o GetSpecialEffects(pl, i + 1)

\* Player.add_action
AddActionTo(pl, action) ==
    [pl EXCEPT !.action_queue = Append(pl.action_queue, action)]

\* is_action_ready scanning the queue from its end: the index of the last queued
\* action at or after i with execute_on <= tick, 0 when there is none
LastReady(queue, tick, i) ==
    LET due == {j \in i..Len(queue) : queue[j].execute_on <= tick}
    IN IF due = {} THEN 0 ELSE CHOOSE j \in due : \A k \in due : k <= j

\* is_action_ready without the test of execute_on: the index of the first
\* queued action at or after i, 0 when there is none
FirstQueued(queue, tick, i) == IF i > Len(queue) THEN 0 ELSE i

\* Player.is_action_ready, the loop: the index of the first queued action at or
\* after i with execute_on <= tick, 0 when there is none
RECURSIVE FirstReady(_, _, _)
FirstReady(queue, tick, i) ==
    IF i > Len(queue) THEN 0
    ELSE IF queue[i].execute_on <= tick THEN i
    ELSE FirstReady(queue, tick, i + 1)

\* list.pop(i)
RemoveAt(queue, i) ==
    [j \in 1..(Len(queue) - 1) |-> IF j < i THEN queue[j] ELSE queue[j + 1]]

\* Player.is_action_ready: the popped action goes to next_action
IsActionReady(pl, tick) ==
    LET i == FirstReady(pl.action_queue, tick, 1)
    IN IF i = 0 THEN pl
       ELSE [pl EXCEPT !.next_action = pl.action_queue[i],
                       !.action_queue = RemoveAt(pl.action_queue, i)]

\* update_cooldowns clearing the cooldown at the end of every tick
UpdateCooldownsClear(pl) == [pl EXCEPT !.cooldown = 0]

\* Player.update_cooldowns
UpdateCooldowns(pl) ==
    IF pl.cooldown > 0 THEN [pl EXCEPT !.cooldown = pl.cooldown - 1] ELSE pl

----------------------------------------------------------------------------
(* Combat: src/engine/combat.py *)

\* Manhattan distance
Distance(a, b) == Abs(a[1] - b[1]) + Abs(a[2] - b[2])

\* resolve_attack: the damage of an attack that is made. int(max_hit * (1 -
\* defense / 400)) is the floor of max_hit * (400 - defense) / 400 for the
\* defenses of the model, on which the floating-point product is exact.
AttackDamage(strength, defense, accuracy_roll, variance) ==
    LET base_damage == strength \div BaseDamageDivisor
        max_hit == base_damage + variance
    IN IF accuracy_roll
       THEN Max(MinDamage, (max_hit * (DefenseDivisor - defense)) \div DefenseDivisor)
       ELSE 0

\* resolve_attack with the range check "distance > 2"
ResolveAttackReach2(ps, a, d, accuracy_roll, variance) ==
    IF Distance(ps[a].position, ps[d].position) > 2
    THEN [players |-> ps, damage |-> 0]
    ELSE IF ps[a].cooldown = 0
    THEN LET damage == AttackDamage(ps[a].strength, ps[d].defense,
                                     accuracy_roll, variance)
             hit == [ps EXCEPT ![d].hp = ps[d].hp - damage]
         IN [players |-> [hit EXCEPT ![a].cooldown = hit[a].weapon_speed],
             damage |-> damage]
    ELSE [players |-> ps, damage |-> 0]

\* resolve_attack setting the cooldown only when the attack hits
ResolveAttackCooldownOnHit(ps, a, d, accuracy_roll, variance) ==
    IF Distance(ps[a].position, ps[d].position) > 1
    THEN [players |-> ps, damage |-> 0]
    ELSE IF ps[a].cooldown = 0
    THEN LET damage == AttackDamage(ps[a].strength, ps[d].defense,
                                     accuracy_roll, variance)
             hit == [ps EXCEPT ![d].hp = ps[d].hp - damage]
         IN [players |-> IF accuracy_roll
                         THEN [hit EXCEPT ![a].cooldown = hit[a].weapon_speed]
                         ELSE hit,
             damage |-> damage]
    ELSE [players |-> ps, damage |-> 0]

\* resolve_attack(attacker, defender): the players after it and the damage returned
ResolveAttack(ps, a, d, accuracy_roll, variance) ==
    IF Distance(ps[a].position, ps[d].position) > 1
    THEN [players |-> ps, damage |-> 0]
    ELSE IF ps[a].cooldown = 0
    THEN LET damage == AttackDamage(ps[a].strength, ps[d].defense,
                                     accuracy_roll, variance)
             hit == [ps EXCEPT ![d].hp = ps[d].hp - damage]
         IN [players |-> [hit EXCEPT ![a].cooldown = hit[a].weapon_speed],
             damage |-> damage]
    ELSE [players |-> ps, damage |-> 0]

\* calculate_base_damage: the rolls random.randint(0, int(1 + strength / 10)) can give
BaseDamageRolls(ps, a) == 0..(1 + ps[a].effective_stats["strength"] \div 10)

\* calculate_base_damage(attacker, defender), hit being "random.random() <=
\* hit_chance" and roll the random.randint: the damage, or the error raised by
\* attack / (attack + defense)
CalculateBaseDamage(ps, a, d, hit, roll) ==
    IF ps[a].effective_stats["attack"] + ps[d].effective_stats["defense"] = 0
    THEN [damage |-> 0, raised |-> "ZeroDivisionError"]
    ELSE [damage |-> IF hit THEN roll ELSE 0, raised |-> None]

\* random.random() < effect_value / 100; lucky holds the kinds of effect whose
\* draw is low (every kind is on at most one item of a player)
Roll(e, lucky) ==
    e.value >= 100 \/ (e.value > 0 /\ e.effect \in lucky)

\* apply_special_effects, "Apply offensive effects": the loop from the i-th
\* effect of the attacker on. st is the running damage, the players, the
\* effects triggered and the error raised; an error ends the function.
\* TickManager has no schedule_event: the call raises AttributeError.
RECURSIVE OffensiveEffects(_, _, _, _, _, _, _)
OffensiveEffects(st, effs, i, a, d, lucky, extra_damage) ==
    IF i > Len(effs) \/ st.raised # None THEN st
    ELSE LET e == effs[i]
             heal_amount == (st.damage * e.value) \div 100
             next ==
               CASE e.effect = "critical_chance" /\ Roll(e, lucky) ->
                      [st EXCEPT !.damage = 2 * st.damage,
                                 !.effects_triggered = Append(@, "critical_hit")]
                 [] e.effect = "life_steal" /\ st.damage > 0 ->
                      IF heal_amount > 0
                      THEN [st EXCEPT !.players[a].hp =
                                         Min(st.players[a].max_hp,
                                             st.players[a].hp + heal_amount),
                                      !.effects_triggered = Append(@, "life_steal")]
                      ELSE st
                 [] e.effect = "double_strike" /\ Roll(e, lucky) ->
                      [st EXCEPT !.damage = st.damage + extra_damage,
                                 !.effects_triggered = Append(@, "double_strike")]
                 [] e.effect = "poison_chance" /\ Roll(e, lucky) ->
                      [st EXCEPT !.raised = "AttributeError"]
                 [] OTHER -> st
         IN OffensiveEffects(next, effs, i + 1, a, d, lucky, extra_damage)

\* the loop of the defensive effects with a dodge that leaves the damage as it is
RECURSIVE DefensiveEffectsKeepDamage(_, _, _, _, _, _)
DefensiveEffectsKeepDamage(st, effs, i, a, d, lucky) ==
    IF i > Len(effs) THEN st
    ELSE LET e == effs[i]
             reflect_damage == (st.damage * e.value) \div 100
         IN CASE e.effect = "dodge_chance" /\ Roll(e, lucky) ->
                   [st EXCEPT !.effects_triggered = Append(@, "dodge")]
              [] e.effect = "damage_reflection" /\ st.damage > 0 ->
                   DefensiveEffectsKeepDamage(
                       IF reflect_damage > 0
                       THEN [st EXCEPT !.players[a].hp = st.players[a].hp - reflect_damage,
                                       !.effects_triggered = Append(@, "damage_reflection")]
                       ELSE st,
                       effs, i + 1, a, d, lucky)
              [] OTHER -> DefensiveEffectsKeepDamage(st, effs, i + 1, a, d, lucky)

\* apply_special_effects, "Apply defensive effects": the loop from the i-th
\* effect of the defender on; a dodge ends it
RECURSIVE DefensiveEffects(_, _, _, _, _, _)
DefensiveEffects(st, effs, i, a, d, lucky) ==
    IF i > Len(effs) THEN st
    ELSE LET e == effs[i]
             reflect_damage == (st.damage * e.value) \div 100
         IN CASE e.effect = "dodge_chance" /\ Roll(e, lucky) ->
                   [st EXCEPT !.damage = 0,
                              !.effects_triggered = Append(@, "dodge")]
              [] e.effect = "damage_reflection" /\ st.damage > 0 ->
                   DefensiveEffects(
                       IF reflect_damage > 0
                       THEN [st EXCEPT !.players[a].hp = st.players[a].hp - reflect_damage,
                                       !.effects_triggered = Append(@, "damage_reflection")]
                       ELSE st,
                       effs, i + 1, a, d, lucky)
              [] OTHER -> DefensiveEffects(st, effs, i + 1, a, d, lucky)

\* apply_special_effects(attacker, defender, base_damage, tick_manager)
ApplySpecialEffects(ps, a, d, base_damage, lucky, extra_damage) ==
    LET start == [players |-> ps, damage |-> base_damage,
                  effects_triggered |-> <<>>, raised |-> None]
        offended == OffensiveEffects(start, GetSpecialEffects(ps[a], 1), 1, a, d,
                                     lucky, extra_damage)
    IN IF offended.raised # None THEN offended
       ELSE DefensiveEffects(offended, GetSpecialEffects(ps[d], 1), 1, a, d, lucky)

\* calculate_damage(attacker, defender, tick_manager)
CalculateDamage(ps, a, d, hit, roll, lucky, extra_damage) ==
    LET base == CalculateBaseDamage(ps, a, d, hit, roll)
    IN IF base.raised # None
       THEN [players |-> ps, damage |-> 0, effects_triggered |-> <<>>,
             raised |-> base.raised]
       ELSE ApplySpecialEffects(ps, a, d, base.damage, lucky, extra_damage)

\* apply_poison_damage without the test "if defender.hp <= 0: return"
ApplyPoisonDamageToAny(ps, evs, a, d, damage) ==
    [players |-> [ps EXCEPT ![d].hp = ps[d].hp - damage],
     events |-> evs, raised |-> "TypeError"]

\* apply_poison_damage(attacker, defender, damage, tick_manager): the players,
\* the events and the error raised. TickManager.log_event(message) takes no
\* keyword arguments: the call that logs the damage raises TypeError.
ApplyPoisonDamage(ps, evs, a, d, damage) ==
    IF ps[d].hp <= 0
    THEN [players |-> ps, events |-> evs, raised |-> None]
    ELSE [players |-> [ps EXCEPT ![d].hp = ps[d].hp - damage],
          events |-> evs, raised |-> "TypeError"]

----------------------------------------------------------------------------
(* TickManager: src/engine/tick_manager.py *)

\* log_event with self.events.insert(0, ...): the entry is put in front
LogEventInFront(evs, tick, message) == <<[tick |-> tick, message |-> message]>> \o evs

\* TickManager.log_event
LogEvent(evs, tick, message) == Append(evs, [tick |-> tick, message |-> message])

\* action_type == "attack" or action_type.startswith("attack_")
AttackTypes == {"attack", "attack_melee", "attack_ranged", "attack_magic"}

\* dict.get of the keys an action may lack: None where a player, a position
\* is expected, and the default 0 of action.get("heal_amount", 0)
NoPlayer == 0
NoPosition == <<>>
GetTarget(action) ==
    IF "target" \in DOMAIN action THEN action.target ELSE NoPlayer
GetDestination(action) ==
    IF "destination" \in DOMAIN action THEN action.destination ELSE NoPosition
GetHealAmount(action) ==
    IF "heal_amount" \in DOMAIN action THEN action.heal_amount ELSE 0

\* TickManager.execute_action: the players and the events after it, and the
\* error it raises: None.startswith when the type is None, defender.position
\* when the target is None, and the unpacking "x, y = position" of
\* resolve_attack when a position is None
ExecuteAction(ps, evs, tick, p, action, accuracy_roll, variance) ==
    IF action.type = None
    THEN [players |-> ps, events |-> evs, raised |-> "AttributeError"]
    ELSE
    CASE action.type \in AttackTypes ->
            IF GetTarget(action) = NoPlayer
            THEN [players |-> ps, events |-> evs, raised |-> "AttributeError"]
            ELSE IF \/ ps[p].position = NoPosition
                    \/ ps[GetTarget(action)].position = NoPosition
            THEN [players |-> ps, events |-> evs, raised |-> "TypeError"]
            ELSE
            LET r == ResolveAttack(ps, p, action.target, accuracy_roll, variance)
            IN [players |-> r.players,
                events |-> LogEvent(evs, tick,
                                    <<"attacks", p, action.target, r.damage>>),
                raised |-> None]
      [] action.type = "move" ->
            [players |-> [ps EXCEPT ![p].position = GetDestination(action)],
             events |-> LogEvent(evs, tick, <<"moved", p, GetDestination(action)>>),
             raised |-> None]
      [] action.type = "eat" ->
            LET new_hp == Min(ps[p].max_hp, ps[p].hp + GetHealAmount(action))
            IN [players |-> [ps EXCEPT ![p].hp = new_hp],
                events |-> LogEvent(evs, tick, <<"healed", p, new_hp - ps[p].hp>>),
                raised |-> None]
      [] OTHER -> [players |-> ps, events |-> evs, raised |-> None]

\* process_actions(p) at this tick executes an attack that passes the range
\* test and the cooldown test of resolve_attack
CarriesOutAttack(ps, tick, p) ==
    /\ FirstReady(ps[p].action_queue, tick, 1) # 0
    /\ LET action == IsActionReady(ps[p], tick).next_action
       IN /\ action.type \in AttackTypes
          /\ GetTarget(action) # NoPlayer
          /\ Distance(ps[p].position, ps[GetTarget(action)].position) <= 1
          /\ ps[p].cooldown = 0

\* process_actions reached through "for player in reversed(self.players)": the
\* pass that is p's in registration order processes the other player
ProcessActionsOfReversed(ps, evs, tick, p, accuracy_roll, variance) ==
    LET q == Other(p)
        ready == IsActionReady(ps[q], tick)
    IN IF FirstReady(ps[q].action_queue, tick, 1) = 0
       THEN [players |-> ps, events |-> evs]
       ELSE LET r == ExecuteAction([ps EXCEPT ![q] = ready], evs, tick, q,
                                   ready.next_action, accuracy_roll, variance)
            IN [players |-> [r.players EXCEPT ![q].next_action = None],
                events |-> r.events]

\* TickManager.process_actions(player)
ProcessActionsOf(ps, evs, tick, p, accuracy_roll, variance) ==
    LET ready == IsActionReady(ps[p], tick)
    IN IF FirstReady(ps[p].action_queue, tick, 1) = 0
       THEN [players |-> ps, events |-> evs]
       ELSE LET r == ExecuteAction([ps EXCEPT ![p] = ready], evs, tick, p,
                                   ready.next_action, accuracy_roll, variance)
            IN [players |-> [r.players EXCEPT ![p].next_action = None],
                events |-> r.events]

\* self.events[-n:]
LastEvents(evs, n) == SubSeq(evs, Max(1, Len(evs) - n + 1), Len(evs))

\* any(e['message'].startswith(f"{player.name} <kind>") for e in evs)
AnyMessage(evs, kind, p) ==
    \E i \in 1..Len(evs) : evs[i].message[1] = kind /\ evs[i].message[2] = p

\* update_game_state, the body of the health-milestone loop for one player
LogMilestones(ps, evs, tick, p) ==
    LET hp == ps[p].hp
        e1 == IF hp <= 50 /\ hp > 40 /\ ~AnyMessage(evs, "is at half health", p)
              THEN LogEvent(evs, tick, <<"is at half health", p>>)
              ELSE evs
        e2 == IF hp <= 25 /\ hp > 0
              THEN IF hp <= 10
                   THEN IF ~AnyMessage(LastEvents(e1, 10), "is critically wounded", p)
                        THEN LogEvent(e1, tick, <<"is critically wounded", p, hp>>)
                        ELSE e1
                   ELSE IF ~AnyMessage(LastEvents(e1, 10), "is badly wounded", p)
                        THEN LogEvent(e1, tick, <<"is badly wounded", p>>)
                        ELSE e1
              ELSE e1
        health_diff == hp - ps[Other(p)].hp
    IN IF health_diff >= 30
          /\ ~AnyMessage(LastEvents(e2, 15), "has a significant health advantage", p)
       THEN LogEvent(e2, tick, <<"has a significant health advantage", p>>)
       ELSE e2

\* update_game_state, the body of the win-condition loop for one player
CheckWin(ps, st, tick, p) ==
    IF ps[p].hp <= 0
    THEN [events |-> LogEvent(st.events, tick, <<"has defeated", Other(p), p>>),
          duel_active |-> FALSE]
    ELSE st

\* TickManager.update_game_state: the players, the events and duel_active after it
UpdateGameStateOf(ps, evs, active, tick) ==
    LET cooled == [p \in Players |-> UpdateCooldowns(ps[p])]
        logged == LogMilestones(cooled, LogMilestones(cooled, evs, tick, 1), tick, 2)
        won == CheckWin(cooled,
                        CheckWin(cooled, [events |-> logged, duel_active |-> active],
                                 tick, 1),
                        tick, 2)
    IN [players |-> cooled, events |-> won.events, duel_active |-> won.duel_active]

----------------------------------------------------------------------------
(* RuleSet: src/engine/rules.py *)

\* RuleSet.is_action_allowed(action_type)
IsActionAllowed(r, action_type) ==
    CASE action_type = "attack_melee" /\ ~r.allow_melee -> FALSE
      [] action_type = "attack_ranged" /\ ~r.allow_ranged -> FALSE
      [] action_type = "attack_magic" /\ ~r.allow_magic -> FALSE
      [] action_type = "eat" /\ r.no_food -> FALSE
      [] action_type = "move" /\ r.no_movement -> FALSE
      [] OTHER -> TRUE

\* the rules have no "arena_size" key; a key that is there is <<width, height>>
NoArena == <<>>

\* RuleSet.__init__: the default rules; arena_size is not among them
DefaultRules ==
    [allow_melee |-> TRUE, allow_ranged |-> TRUE, allow_magic |-> TRUE,
     no_food |-> TRUE, no_movement |-> FALSE, arena_size |-> NoArena]

\* self.rules.get("arena_size", {"width": 5, "height": 5})
ArenaSize(r) ==
    IF r.arena_size = NoArena
    THEN [width |-> 5, height |-> 5]
    ELSE [width |-> r.arena_size[1], height |-> r.arena_size[2]]

\* get_legal_actions, "Check if player can attack", without the cooldown test
AttackCandidatesAnyCooldown(r, pl) ==
    (IF r.allow_melee THEN <<[type |-> "attack_melee"]>> ELSE <<>>)
    \o (IF r.allow_ranged THEN <<[type |-> "attack_ranged"]>> ELSE <<>>)
    \o (IF r.allow_magic THEN <<[type |-> "attack_magic"]>> ELSE <<>>)

\* get_legal_actions, "Check if player can attack"
AttackCandidates(r, pl) ==
    IF pl.cooldown = 0
    THEN (IF r.allow_melee THEN <<[type |-> "attack_melee"]>> ELSE <<>>)
         \o (IF r.allow_ranged THEN <<[type |-> "attack_ranged"]>> ELSE <<>>)
         \o (IF r.allow_magic THEN <<[type |-> "attack_magic"]>> ELSE <<>>)
    ELSE <<>>

\* for dx, dy in [(0, 1), (1, 0), (0, -1), (-1, 0)]
Directions == <<(<<0, 1>>), (<<1, 0>>), (<<0, -1>>), (<<-1, 0>>)>>

\* other_positions
OtherPositions(ps, p) == {ps[o].position : o \in Players \ {p}}

\* get_legal_actions, "Check if player can move", with the arena bounds
\* 0 <= new_x <= width and 0 <= new_y <= height
MoveCandidatesInclusive(r, ps, p) ==
    IF r.no_movement THEN <<>>
    ELSE LET pos == ps[p].position
             arena == ArenaSize(r)
             dests == [i \in 1..Len(Directions) |->
                         <<pos[1] + Directions[i][1], pos[2] + Directions[i][2]>>]
             Free(c) == /\ 0 <= c[1] /\ c[1] <= arena.width
                        /\ 0 <= c[2] /\ c[2] <= arena.height
                        /\ c \notin OtherPositions(ps, p)
             free == SelectSeq(dests, Free)
         IN [i \in 1..Len(free) |-> [type |-> "move", destination |-> free[i]]]

\* get_legal_actions, "Check if player can move"
MoveCandidates(r, ps, p) ==
    IF r.no_movement THEN <<>>
    ELSE LET pos == ps[p].position
             arena == ArenaSize(r)
             dests == [i \in 1..Len(Directions) |->
                         <<pos[1] + Directions[i][1], pos[2] + Directions[i][2]>>]
             Free(c) == /\ 0 <= c[1] /\ c[1] < arena.width
                        /\ 0 <= c[2] /\ c[2] < arena.height
                        /\ c \notin OtherPositions(ps, p)
             free == SelectSeq(dests, Free)
         IN [i \in 1..Len(free) |-> [type |-> "move", destination |-> free[i]]]

\* get_legal_actions, "Check if player can eat", always offering the full 25
EatCandidatesFullHeal(r, pl) ==
    IF ~r.no_food /\ pl.hp < pl.max_hp
    THEN <<[type |-> "eat", heal_amount |-> FixedHeal]>>
    ELSE <<>>

\* get_legal_actions, "Check if player can eat"
EatCandidates(r, pl) ==
    IF ~r.no_food /\ pl.hp < pl.max_hp
    THEN <<[type |-> "eat", heal_amount |-> Min(FixedHeal, pl.max_hp - pl.hp)]>>
    ELSE <<>>

\* get_legal_actions reading the arena with self.rules.setdefault("arena_size", ...)
GetLegalActionsSetDefault(r, ps, p) ==
    [rules |-> [r EXCEPT !.arena_size = <<ArenaSize(r).width, ArenaSize(r).height>>],
     players |-> ps,
     legal_actions |-> AttackCandidates(r, ps[p]) \o MoveCandidates(r, ps, p)
                       \o EatCandidates(r, ps[p])]

\* RuleSet.get_legal_actions(player, game_state): the list returned, and the
\* rules and the players after the call
GetLegalActions(r, ps, p) ==
    [rules |-> r,
     players |-> ps,
     legal_actions |-> AttackCandidates(r, ps[p]) \o MoveCandidates(r, ps, p)
                       \o EatCandidates(r, ps[p])]

----------------------------------------------------------------------------
(* The driver: run_duel_simulation of src/main.py and src/duelsim/main.py *)

Drivers == {"main", "duelsim_main"}

\* src/main.py: "Determine winner"
DetermineWinnerMain(ps) ==
    IF ps[1].hp <= 0 THEN Name(2)
    ELSE IF ps[2].hp <= 0 THEN Name(1)
    ELSE "draw"

\* src/duelsim/main.py: "Determine winner"; hp / max_hp are compared as fractions
DetermineWinnerDuelsimMain(ps) ==
    IF ps[1].hp <= 0 THEN Name(2)
    ELSE IF ps[2].hp <= 0 THEN Name(1)
    ELSE IF ps[1].hp * ps[2].max_hp > ps[2].hp * ps[1].max_hp THEN Name(1)
    ELSE IF ps[2].hp * ps[1].max_hp > ps[1].hp * ps[2].max_hp THEN Name(2)
    ELSE "draw"

DetermineWinner(d, ps) ==
    IF d = "main" THEN DetermineWinnerMain(ps) ELSE DetermineWinnerDuelsimMain(ps)

\* while tick_manager.duel_active, without the bound on the ticks
LoopConditionUnbounded == duel_active

\* while current_tick < max_ticks and tick_manager.duel_active
LoopCondition == loop_tick < MaxTicks /\ duel_active

\* The actions a collaborator submits through add_action at driver tick t: an
\* attack due in this tick or the next, a move or a meal due in this tick
SubmittedActions(p, t) ==
    {[type |-> "attack_melee", target |-> Other(p), execute_on |-> e] : e \in {t, t + 1}}
    \cup {[type |-> "move", destination |-> c, execute_on |-> t] : c \in Cells}
    \cup {[type |-> "eat", heal_amount |-> h, execute_on |-> t] : h \in HealChoices}

\* The duels that are set up: the driver, and per player the hp handed to
\* Player(...), the items equipped before the duel and the starting position.
\* The stats handed to Player(...) are small ones (SetUpPlayer), so that a hit
\* deals 3 and a duel can end within MaxTicks ticks.
Setups ==
    {[driver |-> "main", hp |-> <<2, 2>>, items |-> <<(<<>>), (<<>>)>>,
      position |-> <<(<<0, 0>>), (<<1, 0>>)>>],
     [driver |-> "main", hp |-> <<45, 2>>, items |-> <<(<<"Sword">>), (<<>>)>>,
      position |-> <<(<<0, 0>>), (<<1, 1>>)>>],
     [driver |-> "duelsim_main", hp |-> <<45, 45>>, items |-> <<(<<"Sword">>), (<<>>)>>,
      position |-> <<(<<0, 0>>), (<<1, 0>>)>>]}

RECURSIVE EquipAll(_, _, _)
EquipAll(pl, items, i) ==
    IF i > Len(items) THEN pl ELSE EquipAll(EquipItem(pl, items[i]), items, i + 1)

\* run_duel_simulation up to the loop: the players are created, equipped, placed
\* and registered; duelsim/main.py then overwrites weapon_speed
SetUpPlayer(d, hp, items, position) ==
    LET equipped == EquipAll(NewPlayer(hp, 7, 7, 200), items, 1)
        sped == IF d = "duelsim_main"
                THEN [equipped EXCEPT !.weapon_speed = OverrideWeaponSpeed]
                ELSE equipped
    IN [sped EXCEPT !.position = position]

NoEquipCall == [stage |-> "none", slot |-> None, displaced |-> None,
                before |-> BaseStats(0, 0, 0, 0)]

\* no list has been asked for yet, or the list that was returned has been used
NoLegal == [player |-> 0, actions |-> <<>>]

\* no function of the engine has been called directly yet; n counts the calls
NoCall == [op |-> None, attacker |-> 0, target |-> 0, base_damage |-> 0,
           damage |-> 0, effects_triggered |-> <<>>, raised |-> None, n |-> 0,
           action |-> [type |-> None]]

\* the number of duels that are queued
MaxDuels == 2
Duels == 1..MaxDuels

\* the values of current_duel: None, the duel_config that _run_duel sets, and
\* the dictionary that start_next_duel sets, which alone has the key 'players'
NoDuel == [id |-> 0, players |-> FALSE]
DuelConfig(d) == [id |-> d, players |-> FALSE]
StartedDuel(d) == [id |-> d, players |-> TRUE]

\* a thread that start_next_duel has not started
NotStarted == [pc |-> "unborn", outcome |-> None]

\* DuelManager.__init__: nothing is queued, no duel is set, the processor
\* thread is at the top of its loop
ManagerCreated ==
    /\ running = FALSE
    /\ current_duel = NoDuel
    /\ duel_queue = <<>>
    /\ main = [pc |-> "start", queued |-> 0, quiet |-> FALSE,
               duel_config |-> 0, result |-> None]
    /\ processor = [pc |-> "poll", duel_config |-> 0, outcome |-> None]
    /\ duel_thread = [d \in Duels |-> NotStarted]

\* the duel runs without a DuelManager
NoManager == ManagerCreated

\* no action has been executed yet
NoneExecuted == [p \in Players |-> <<>>]

Init ==
    /\ \E s \in Setups :
          /\ driver = s.driver
          /\ players = [p \in Players |->
                          SetUpPlayer(s.driver, s.hp[p], s.items[p], s.position[p])]
    /\ current_tick = 0
    /\ duel_active = TRUE
    /\ events = <<>>
    /\ pc = "loop"
    /\ idx = 1
    /\ loop_tick = 0
    /\ winner = None
    /\ submitted = 0
    /\ last_equip = [p \in Players |-> NoEquipCall]
    /\ rules = DefaultRules
    /\ legal = NoLegal
    /\ call = NoCall
    /\ executed = NoneExecuted
    /\ NoManager

\* a collaborator (AI agent, controller, test) queues an action between two ticks
AddAction(p) ==
    /\ pc = "loop"
    /\ LoopCondition
    /\ submitted < MaxSubmit
    /\ submitted' = submitted + 1
    /\ \E a \in SubmittedActions(p, loop_tick) :
          players' = [players EXCEPT ![p] = AddActionTo(players[p], a)]
    /\ UNCHANGED <<current_tick, duel_active, events, pc, idx, loop_tick, winner,
                   driver, last_equip>>
    /\ UNCHANGED apiVars
    /\ UNCHANGED executed
    /\ UNCHANGED managerVars

\* the loop body up to process_tick: tick_manager.current_tick = current_tick
StartTick ==
    /\ pc = "loop"
    /\ LoopCondition
    /\ current_tick' = loop_tick
    /\ pc' = "act"
    /\ idx' = 1
    /\ UNCHANGED <<players, duel_active, events, loop_tick, winner, driver, submitted, last_equip>>
    /\ UNCHANGED apiVars
    /\ UNCHANGED executed
    /\ UNCHANGED managerVars

\* process_tick, one pass of "for player in self.players: process_actions(player)"
ProcessActions ==
    /\ pc = "act"
    /\ \E accuracy_roll \in BOOLEAN, variance \in 0..MaxVariance :
          LET r == ProcessActionsOf(players, events, current_tick, idx,
                                    accuracy_roll, variance)
          IN /\ players' = r.players
             /\ events' = r.events
    /\ executed' =
          LET i == FirstReady(players[idx].action_queue, current_tick, 1)
          IN IF i = 0 THEN executed
             ELSE [executed EXCEPT ![idx] =
                     Append(@, [tick |-> current_tick, index |-> i,
                                attack |-> CarriesOutAttack(players, current_tick, idx)])]
    /\ IF idx < Cardinality(Players)
       THEN idx' = idx + 1 /\ pc' = "act"
       ELSE idx' = 1 /\ pc' = "update"
    /\ UNCHANGED <<current_tick, duel_active, loop_tick, winner, driver, submitted, last_equip>>
    /\ UNCHANGED apiVars
    /\ UNCHANGED managerVars

\* process_tick: update_game_state; then the driver's current_tick += 1
UpdateGameState ==
    /\ pc = "update"
    /\ LET r == UpdateGameStateOf(players, events, duel_active, current_tick)
       IN /\ players' = r.players
          /\ events' = r.events
          /\ duel_active' = r.duel_active
    /\ loop_tick' = loop_tick + 1
    /\ pc' = "loop"
    /\ UNCHANGED <<current_tick, idx, winner, driver, submitted, last_equip>>
    /\ UNCHANGED apiVars
    /\ UNCHANGED executed
    /\ UNCHANGED managerVars

\* the loop has ended: the driver determines the winner
Finish ==
    /\ pc = "loop"
    /\ ~LoopCondition
    /\ winner' = DetermineWinner(driver, players)
    /\ pc' = "done"
    /\ UNCHANGED <<players, current_tick, duel_active, events, idx, loop_tick,
                   driver, submitted, last_equip>>
    /\ UNCHANGED apiVars
    /\ UNCHANGED executed
    /\ UNCHANGED managerVars

Next ==
    \/ \E p \in Players : AddAction(p)
    \/ StartTick
    \/ ProcessActions
    \/ UpdateGameState
    \/ Finish

Spec == Init /\ [][Next]_vars

\* the statements of the driver, which runs on until its loop has ended
DriverStep == StartTick \/ ProcessActions \/ UpdateGameState \/ Finish

\* the driver is a sequential program that is never suspended for good
SpecFair == Spec /\ WF_vars(DriverStep)

----------------------------------------------------------------------------
(* Equipping, before a duel: Player.equip_item and Player.unequip_item, called  *)
(* on the players as they are before the driver touches weapon_speed           *)

InitEquip ==
    /\ \E s \in Setups :
          /\ driver = s.driver
          /\ players = [p \in Players |->
                          SetUpPlayer("main", s.hp[p], s.items[p], s.position[p])]
    /\ current_tick = 0
    /\ duel_active = TRUE
    /\ events = <<>>
    /\ pc = "equip"
    /\ idx = 1
    /\ loop_tick = 0
    /\ winner = None
    /\ submitted = 0
    /\ last_equip = [p \in Players |-> NoEquipCall]
    /\ rules = DefaultRules
    /\ legal = NoLegal
    /\ call = NoCall
    /\ executed = NoneExecuted
    /\ NoManager

\* player.equip_item(item)
Equip(p, item) ==
    /\ pc = "equip"
    /\ players' = [players EXCEPT ![p] = EquipItem(players[p], item)]
    /\ last_equip' = [last_equip EXCEPT ![p] =
                        [stage |-> "equipped", slot |-> Item(item).slot,
                         displaced |-> players[p].equipment[Item(item).slot],
                         before |-> players[p].effective_stats]]
    /\ UNCHANGED <<current_tick, duel_active, events, pc, idx, loop_tick, winner,
                   driver, submitted>>
    /\ UNCHANGED apiVars
    /\ UNCHANGED executed
    /\ UNCHANGED managerVars

\* player.unequip_item(slot)
Unequip(p, slot) ==
    /\ pc = "equip"
    /\ players' = [players EXCEPT ![p] = UnequipItem(players[p], slot)]
    /\ last_equip' = [last_equip EXCEPT ![p] =
                        IF last_equip[p].stage = "equipped" /\ last_equip[p].slot = slot
                        THEN [last_equip[p] EXCEPT !.stage = "unequipped"]
                        ELSE NoEquipCall]
    /\ UNCHANGED <<current_tick, duel_active, events, pc, idx, loop_tick, winner,
                   driver, submitted>>
    /\ UNCHANGED apiVars
    /\ UNCHANGED executed
    /\ UNCHANGED managerVars

NextEquip ==
    \/ \E p \in Players, item \in ItemNames : Equip(p, item)
    \/ \E p \in Players, slot \in Slots : Unequip(p, slot)

SpecEquip == InitEquip /\ [][NextEquip]_vars

----------------------------------------------------------------------------
(* The rule set asked by a collaborator: RuleSet.get_legal_actions, and the    *)
(* meal it offers executed by TickManager.execute_action                       *)

\* RuleSet(rules_config): the defaults overridden by the configuration
RuleConfigs ==
    [allow_melee : BOOLEAN, allow_ranged : BOOLEAN, allow_magic : BOOLEAN,
     no_food : BOOLEAN, no_movement : BOOLEAN,
     arena_size : {NoArena, <<2, 2>>}]

\* the states of two players in the course of a duel that the rule set is asked about
RulesSetups ==
    [position : {<<0, 0>>, <<1, 1>>, <<4, 4>>} \X {<<1, 0>>, <<4, 3>>},
     hp : {-1, 30, 45} \X {-1, 30, 45},
     cooldown : {0, 3} \X {0, 3}]

InitRules ==
    /\ rules \in RuleConfigs
    /\ \E s \in RulesSetups :
          players = [p \in Players |->
                       [NewPlayer(45, 7, 7, 200) EXCEPT !.position = s.position[p],
                                                        !.hp = s.hp[p],
                                                        !.cooldown = s.cooldown[p]]]
    /\ driver = "main"
    /\ current_tick = 0
    /\ duel_active = TRUE
    /\ events = <<>>
    /\ pc = "rules"
    /\ idx = 1
    /\ loop_tick = 0
    /\ winner = None
    /\ submitted = 0
    /\ last_equip = [p \in Players |-> NoEquipCall]
    /\ legal = NoLegal
    /\ call = NoCall
    /\ executed = NoneExecuted
    /\ NoManager

\* legal_actions = rules.get_legal_actions(player, tick_manager)
AskLegalActions(p) ==
    /\ pc = "rules"
    /\ LET r == GetLegalActions(rules, players, p)
       IN /\ rules' = r.rules
          /\ players' = r.players
          /\ legal' = [player |-> p, actions |-> r.legal_actions]
    /\ UNCHANGED <<current_tick, duel_active, events, pc, idx, loop_tick, winner,
                   driver, submitted, last_equip, call>>
    /\ UNCHANGED executed
    /\ UNCHANGED managerVars

\* the meal of the list just returned is executed: execute_action(player, action)
ExecuteLegalEat(p) ==
    /\ pc = "rules"
    /\ legal.player = p
    /\ \E i \in 1..Len(legal.actions) :
          /\ legal.actions[i].type = "eat"
          /\ LET r == ExecuteAction(players, events, current_tick, p,
                                    legal.actions[i], FALSE, 0)
             IN /\ players' = r.players
                /\ events' = r.events
    /\ legal' = NoLegal
    /\ UNCHANGED <<current_tick, duel_active, pc, idx, loop_tick, winner,
                   driver, submitted, last_equip, rules, call>>
    /\ UNCHANGED executed
    /\ UNCHANGED managerVars

NextRules ==
    \/ \E p \in Players : AskLegalActions(p)
    \/ \E p \in Players : ExecuteLegalEat(p)

SpecRules == InitRules /\ [][NextRules]_vars

----------------------------------------------------------------------------
(* The combat functions called by a collaborator on registered players:        *)
(* TickManager.execute_action with an attack, combat.calculate_damage and      *)
(* combat.apply_poison_damage (the callback that a poisoning hit hands to the  *)
(* scheduler)                                                                  *)

\* the number of calls that are followed
MaxCalls == 2

\* the items of a player, its hp and the position of the second player
CombatItems == {<<>>, <<"Staff">>, <<"Sword", "Ring">>, <<"Amulet">>, <<"Plate", "Amulet">>}
CombatSetups ==
    [items : CombatItems \X CombatItems,
     hp : {2, 5} \X {2, 5},
     position : {<<1, 0>>, <<1, 1>>}]

\* the damage handed to apply_poison_damage: max(1, int(damage * 0.2)) is 1 or more
PoisonDamages == {1, 3}

InitCombat ==
    /\ \E s \in CombatSetups :
          players = [p \in Players |->
                       SetUpPlayer("main", s.hp[p], s.items[p],
                                   IF p = 1 THEN <<0, 0>> ELSE s.position)]
    /\ driver = "main"
    /\ current_tick = 0
    /\ duel_active = TRUE
    /\ events = <<>>
    /\ pc = "combat"
    /\ idx = 1
    /\ loop_tick = 0
    /\ winner = None
    /\ submitted = 0
    /\ last_equip = [p \in Players |-> NoEquipCall]
    /\ rules = DefaultRules
    /\ legal = NoLegal
    /\ call = NoCall
    /\ executed = NoneExecuted
    /\ NoManager

\* tick_manager.execute_action(attacker, {"type": "attack", "target": defender})
ExecuteAttackCall(a, d) ==
    /\ pc = "combat"
    /\ call.n < MaxCalls
    /\ \E accuracy_roll \in BOOLEAN, variance \in 0..MaxVariance :
          LET r == ExecuteAction(players, events, current_tick, a,
                                 [type |-> "attack", target |-> d],
                                 accuracy_roll, variance)
          IN /\ players' = r.players
             /\ events' = r.events
             /\ call' = [NoCall EXCEPT !.op = "execute_action",
                                       !.attacker = a, !.target = d,
                                       !.damage = players[d].hp - r.players[d].hp,
                                       !.raised = r.raised,
                                       !.n = call.n + 1]
    /\ UNCHANGED <<current_tick, duel_active, pc, idx, loop_tick, winner,
                   driver, submitted, last_equip, rules, legal>>
    /\ UNCHANGED executed
    /\ UNCHANGED managerVars

\* calculate_damage(attacker, defender, tick_manager)
CalculateDamageCall(a, d) ==
    /\ pc = "combat"
    /\ call.n < MaxCalls
    /\ \E hit \in BOOLEAN, roll \in BaseDamageRolls(players, a),
          lucky \in SUBSET {"critical_chance", "dodge_chance"},
          extra_damage \in BaseDamageRolls(players, a) :
          LET base == CalculateBaseDamage(players, a, d, hit, roll)
              r == CalculateDamage(players, a, d, hit, roll, lucky, extra_damage)
          IN /\ players' = r.players
             /\ call' = [NoCall EXCEPT !.op = "calculate_damage",
                                       !.attacker = a, !.target = d,
                                       !.base_damage = base.damage,
                                       !.damage = r.damage,
                                       !.effects_triggered = r.effects_triggered,
                                       !.raised = r.raised,
                                       !.n = call.n + 1]
    /\ UNCHANGED <<current_tick, duel_active, events, pc, idx, loop_tick, winner,
                   driver, submitted, last_equip, rules, legal>>
    /\ UNCHANGED executed
    /\ UNCHANGED managerVars

\* apply_poison_damage(attacker, defender, poison_damage, tick_manager)
ApplyPoisonDamageCall(a, d) ==
    /\ pc = "combat"
    /\ call.n < MaxCalls
    /\ \E damage \in PoisonDamages :
          LET r == ApplyPoisonDamage(players, events, a, d, damage)
          IN /\ players' = r.players
             /\ events' = r.events
             /\ call' = [NoCall EXCEPT !.op = "apply_poison_damage",
                                       !.attacker = a, !.target = d,
                                       !.damage = damage,
                                       !.raised = r.raised,
                                       !.n = call.n + 1]
    /\ UNCHANGED <<current_tick, duel_active, pc, idx, loop_tick, winner,
                   driver, submitted, last_equip, rules, legal>>
    /\ UNCHANGED executed
    /\ UNCHANGED managerVars

NextCombat ==
    \/ \E a \in Players : ExecuteAttackCall(a, Other(a))
    \/ \E a \in Players : CalculateDamageCall(a, Other(a))
    \/ \E a \in Players : ApplyPoisonDamageCall(a, Other(a))

SpecCombat == InitCombat /\ [][NextCombat]_vars

----------------------------------------------------------------------------
(* combat.calculate_base_damage called on players created with the stats a    *)
(* configuration hands to Player(...): duelsim/main.py passes the values of    *)
(* player1_config and player2_config on as they are                            *)

\* the attack, strength and defense handed to Player(...)
ConfiguredStats == [attack : {0, 7, 70}, strength : {0, 25}, defense : {0, 70}]

InitBaseDamage ==
    /\ \E c \in [Players -> ConfiguredStats] :
          players = [p \in Players |->
                       [NewPlayer(5, c[p].attack, c[p].strength, c[p].defense)
                           EXCEPT !.position = <<p - 1, 0>>]]
    /\ driver = "duelsim_main"
    /\ current_tick = 0
    /\ duel_active = TRUE
    /\ events = <<>>
    /\ pc = "base_damage"
    /\ idx = 1
    /\ loop_tick = 0
    /\ winner = None
    /\ submitted = 0
    /\ last_equip = [p \in Players |-> NoEquipCall]
    /\ rules = DefaultRules
    /\ legal = NoLegal
    /\ call = NoCall
    /\ executed = NoneExecuted
    /\ NoManager

\* calculate_base_damage(attacker, defender)
CalculateBaseDamageCall(a, d) ==
    /\ pc = "base_damage"
    /\ call.n < MaxCalls
    /\ \E hit \in BOOLEAN, roll \in BaseDamageRolls(players, a) :
          LET base == CalculateBaseDamage(players, a, d, hit, roll)
          IN call' = [NoCall EXCEPT !.op = "calculate_base_damage",
                                    !.attacker = a, !.target = d,
                                    !.base_damage = base.damage,
                                    !.damage = base.damage,
                                    !.raised = base.raised,
                                    !.n = call.n + 1]
    /\ UNCHANGED <<players, current_tick, duel_active, events, pc, idx, loop_tick,
                   winner, driver, submitted, last_equip, rules, legal>>
    /\ UNCHANGED executed
    /\ UNCHANGED managerVars

NextBaseDamage == \E a \in Players : CalculateBaseDamageCall(a, Other(a))

SpecBaseDamage == InitBaseDamage /\ [][NextBaseDamage]_vars

----------------------------------------------------------------------------
(* Actions handed to TickManager.execute_action under a rule set: the actions  *)
(* collaborators queue, and payloads that lack a key. Neither process_actions  *)
(* nor execute_action consults the RuleSet.                                    *)

\* payloads of add_action that lack the type, the target or the destination
MalformedActions ==
    {[type |-> None, execute_on |-> 0],
     [type |-> "attack_melee", execute_on |-> 0],
     [type |-> "move", execute_on |-> 0]}

\* the rule sets of the duels: melee, food and movement allowed or not
ExecuteRules ==
    {r \in RuleConfigs : r.allow_ranged /\ r.allow_magic /\ r.arena_size = NoArena}

ExecuteSetups ==
    [hp : {2, 5} \X {2, 5}, position : {<<1, 0>>, <<1, 1>>}]

InitExecute ==
    /\ rules \in ExecuteRules
    /\ \E s \in ExecuteSetups :
          players = [p \in Players |->
                       SetUpPlayer("main", s.hp[p], <<>>,
                                   IF p = 1 THEN <<0, 0>> ELSE s.position)]
    /\ driver = "main"
    /\ current_tick = 0
    /\ duel_active = TRUE
    /\ events = <<>>
    /\ pc = "execute"
    /\ idx = 1
    /\ loop_tick = 0
    /\ winner = None
    /\ submitted = 0
    /\ last_equip = [p \in Players |-> NoEquipCall]
    /\ legal = NoLegal
    /\ call = NoCall
    /\ executed = NoneExecuted
    /\ NoManager

\* tick_manager.execute_action(player, action), as process_actions calls it for
\* the action player.is_action_ready has popped
ExecuteActionCall(p) ==
    /\ pc = "execute"
    /\ call.n < MaxCalls
    /\ \E action \in SubmittedActions(p, current_tick) \cup MalformedActions,
          accuracy_roll \in BOOLEAN, variance \in 0..MaxVariance :
          LET r == ExecuteAction(players, events, current_tick, p, action,
                                 accuracy_roll, variance)
          IN /\ players' = r.players
             /\ events' = r.events
             /\ call' = [NoCall EXCEPT !.op = "execute_action",
                                       !.attacker = p,
                                       !.action = action,
                                       !.raised = r.raised,
                                       !.n = call.n + 1]
    /\ UNCHANGED <<current_tick, duel_active, pc, idx, loop_tick, winner,
                   driver, submitted, last_equip, rules, legal>>
    /\ UNCHANGED executed
    /\ UNCHANGED managerVars

NextExecute == \E p \in Players : ExecuteActionCall(p)

SpecExecute == InitExecute /\ [][NextExecute]_vars

----------------------------------------------------------------------------
(* The driver when collaborators also queue payloads that lack a key:        *)
(* Player.add_action stores whatever it is handed, and an error raised by      *)
(* execute_action leaves process_tick and the loop of run_duel_simulation,     *)
(* which has no try statement.                                                 *)

\* a collaborator queues a payload that lacks a key; it is due at once
AddMalformedAction(p) ==
    /\ pc = "loop"
    /\ LoopCondition
    /\ submitted < MaxSubmit
    /\ submitted' = submitted + 1
    /\ \E a \in MalformedActions :
          players' = [players EXCEPT ![p] = AddActionTo(players[p], a)]
    /\ UNCHANGED <<current_tick, duel_active, events, pc, idx, loop_tick, winner,
                   driver, last_equip>>
    /\ UNCHANGED apiVars
    /\ UNCHANGED executed
    /\ UNCHANGED managerVars

\* execute_action raises for the action of player idx that is due
ExecuteActionRaises ==
    /\ FirstReady(players[idx].action_queue, current_tick, 1) # 0
    /\ LET ready == IsActionReady(players[idx], current_tick)
       IN ExecuteAction([players EXCEPT ![idx] = ready], events, current_tick,
                        idx, ready.next_action, FALSE, 0).raised # None

\* process_tick, one pass of its loop over the players: process_actions either
\* returns, or the error of execute_action ends the run before
\* "player.next_action = None"
ProcessActionsOrRaise ==
    IF pc = "act" /\ ExecuteActionRaises
    THEN /\ players' = [players EXCEPT
                           ![idx] = IsActionReady(players[idx], current_tick)]
         /\ pc' = "raised"
         /\ UNCHANGED <<current_tick, duel_active, events, idx, loop_tick, winner,
                        driver, submitted, last_equip>>
         /\ UNCHANGED apiVars
         /\ UNCHANGED executed
         /\ UNCHANGED managerVars
    ELSE ProcessActions

NextLoop ==
    \/ \E p \in Players : AddAction(p)
    \/ \E p \in Players : AddMalformedAction(p)
    \/ StartTick
    \/ ProcessActionsOrRaise
    \/ UpdateGameState
    \/ Finish

SpecLoop == Init /\ [][NextLoop]_vars

----------------------------------------------------------------------------
(* The driver of src/main.py when the players queue the moves that the rule   *)
(* set offers them: in every other tick each player is handed his legal        *)
(* actions and the action chosen is queued for the next tick                   *)

InitMoves == Init /\ driver = "main"

\* "AI decision making" for player p with a move chosen from the legal actions:
\* action["execute_on"] = current_tick + 1; player.add_action(...)
QueueLegalMove(p) ==
    /\ pc = "loop"
    /\ LoopCondition
    /\ loop_tick % 2 = 0
    /\ submitted < MaxSubmit
    /\ submitted' = submitted + 1
    /\ LET legal_actions == GetLegalActions(rules, players, p).legal_actions
       IN \E i \in 1..Len(legal_actions) :
             /\ legal_actions[i].type = "move"
             /\ players' = [players EXCEPT ![p] =
                              AddActionTo(players[p],
                                          [type |-> "move",
                                           destination |-> legal_actions[i].destination,
                                           execute_on |-> loop_tick + 1])]
    /\ UNCHANGED <<current_tick, duel_active, events, pc, idx, loop_tick, winner,
                   driver, last_equip>>
    /\ UNCHANGED apiVars
    /\ UNCHANGED executed
    /\ UNCHANGED managerVars

NextMoves ==
    \/ \E p \in Players : QueueLegalMove(p)
    \/ StartTick
    \/ ProcessActions
    \/ UpdateGameState
    \/ Finish

SpecMoves == InitMoves /\ [][NextMoves]_vars

----------------------------------------------------------------------------
(* The package's run_duel_simulation: src/duelsim/__init__.py. It keeps the    *)
(* two fighters as dictionaries (here the records of players), the log in      *)
(* events and the tick in current_tick; one fighter acts per tick.             *)

\* max_ticks of the simulations that are followed
PackageMaxTicks == 12

\* the (positive) hp the fighters are configured with, and random.randint(5, 15)
PackageHps == {10, 30}
BaseDamages == {5, 10, 15}

\* default_p1 / default_p2 updated by the configuration, with current_hp and
\* position added
PackageFighter(p, hp) ==
    [name |-> Name(p), hp |-> hp, attack |-> 80, strength |-> 10, defense |-> 100,
     current_hp |-> hp, position |-> IF p = 1 THEN <<0, 0>> ELSE <<4, 4>>]

\* "Move toward opponent": one step along the axis of the larger gap
MoveToward(position, opponent) ==
    LET dx == opponent[1] - position[1]
        dy == opponent[2] - position[2]
    IN IF Abs(dx) > 0 \/ Abs(dy) > 0
       THEN IF Abs(dx) > Abs(dy)
            THEN <<position[1] + (IF dx > 0 THEN 1 ELSE -1), position[2]>>
            ELSE <<position[1], position[2] + (IF dy > 0 THEN 1 ELSE -1)>>
       ELSE position

\* distance <= 1.5, the distance being the Euclidean one of integer cells
CloseEnough(a, b) ==
    (a[1] - b[1]) * (a[1] - b[1]) + (a[2] - b[2]) * (a[2] - b[2]) <= 2

\* int(base_damage * (1 + strength / 10) * (1 - defense / 200)), doubled by a
\* critical hit
PackageDamage(base_damage, strength, defense, is_critical) ==
    LET damage == (base_damage * (10 + strength) * (200 - defense)) \div 2000
    IN IF is_critical THEN 2 * damage ELSE damage

\* one fighter's turn: he moves (action_roll < 0.3, or the opponent is too far)
\* or attacks, and the event is logged
FighterTurn(ps, evs, tick, p, moves, hit, base_damage, is_critical) ==
    LET o == Other(p)
        moved == [players |-> [ps EXCEPT ![p].position =
                                   MoveToward(ps[p].position, ps[o].position)],
                  events |-> Append(evs, [tick |-> tick, type |-> "movement",
                                          actor |-> ps[p].name])]
        damage == PackageDamage(base_damage, ps[p].strength, ps[o].defense,
                                is_critical)
    IN IF moves THEN moved
       ELSE IF CloseEnough(ps[p].position, ps[o].position)
       THEN IF hit
            THEN [players |-> [ps EXCEPT ![o].current_hp = ps[o].current_hp - damage],
                  events |-> Append(evs, [tick |-> tick, type |-> "attack",
                                          actor |-> ps[p].name])]
            ELSE [players |-> ps,
                  events |-> Append(evs, [tick |-> tick, type |-> "attack",
                                          actor |-> ps[p].name])]
       ELSE moved

\* the winner named with the name of the fighter whose hp is 0 or less
PackageWinnerLoser(ps) ==
    IF ps[1].current_hp <= 0 THEN ps[1].name
    ELSE IF ps[2].current_hp <= 0 THEN ps[2].name
    ELSE "draw"

\* "Determine winner and add victory event": the winner
PackageWinner(ps) ==
    IF ps[1].current_hp <= 0 THEN ps[2].name
    ELSE IF ps[2].current_hp <= 0 THEN ps[1].name
    ELSE "draw"

\* while current_tick < max_ticks and p1["current_hp"] > 0 and p2["current_hp"] > 0
PackageLoopCondition ==
    /\ current_tick < PackageMaxTicks
    /\ players[1].current_hp > 0
    /\ players[2].current_hp > 0

\* run_duel_simulation up to its loop: the opening narrative is logged at tick 0
InitPackage ==
    /\ \E hp1 \in PackageHps, hp2 \in PackageHps :
          players = [p \in Players |-> PackageFighter(p, IF p = 1 THEN hp1 ELSE hp2)]
    /\ events = <<[tick |-> 0, type |-> "narrative", actor |-> None]>>
    /\ current_tick = 1
    /\ winner = None
    /\ pc = "package"
    /\ driver = "package"
    /\ duel_active = TRUE
    /\ idx = 1
    /\ loop_tick = 0
    /\ submitted = 0
    /\ last_equip = [p \in Players |-> NoEquipCall]
    /\ rules = DefaultRules
    /\ legal = NoLegal
    /\ call = NoCall
    /\ executed = NoneExecuted
    /\ NoManager

\* one pass of the loop: fighter 1 acts in even ticks, fighter 2 in odd ones;
\* every tenth tick a special move is announced
PackageTick ==
    /\ pc = "package"
    /\ PackageLoopCondition
    /\ \E moves \in BOOLEAN, hit \in BOOLEAN, base_damage \in BaseDamages,
          is_critical \in BOOLEAN, special \in Players :
          LET p == IF current_tick % 2 = 0 THEN 1 ELSE 2
              r == FighterTurn(players, events, current_tick, p, moves, hit,
                               base_damage, is_critical)
          IN /\ players' = r.players
             /\ events' = IF current_tick > 0 /\ current_tick % 10 = 0
                          THEN Append(r.events,
                                      [tick |-> current_tick, type |-> "special",
                                       actor |-> players[special].name])
                          ELSE r.events
    /\ current_tick' = current_tick + 1
    /\ UNCHANGED <<duel_active, pc, idx, loop_tick, winner, driver, submitted,
                   last_equip>>
    /\ UNCHANGED apiVars
    /\ UNCHANGED executed
    /\ UNCHANGED managerVars

\* the loop has ended: the winner is determined and the last event is logged
PackageFinish ==
    /\ pc = "package"
    /\ ~PackageLoopCondition
    /\ winner' = PackageWinner(players)
    /\ events' = Append(events,
                        [tick |-> current_tick,
                         type |-> IF PackageWinner(players) = "draw"
                                  THEN "draw" ELSE "victory",
                         actor |-> PackageWinner(players)])
    /\ pc' = "package_done"
    /\ UNCHANGED <<players, current_tick, duel_active, idx, loop_tick, driver,
                   submitted, last_equip>>
    /\ UNCHANGED apiVars
    /\ UNCHANGED executed
    /\ UNCHANGED managerVars

NextPackage == PackageTick \/ PackageFinish

SpecPackage == InitPackage /\ [][NextPackage]_vars

----------------------------------------------------------------------------
(* DuelManager: src/my-duelsim-game/duel_manager.py, with the thread of        *)
(* test_duel.py that starts it, queues duels and starts them, the processor    *)
(* thread of __init__ and the threads start_next_duel starts. A step is one    *)
(* read or write of the shared fields current_duel and duel_queue.             *)

InitManager ==
    /\ ManagerCreated
    /\ executed = NoneExecuted
    /\ players = [p \in Players |-> PackageFighter(p, 10)]
    /\ events = <<>>
    /\ current_tick = 0
    /\ winner = None
    /\ pc = "manager"
    /\ driver = "package"
    /\ duel_active = TRUE
    /\ idx = 1
    /\ loop_tick = 0
    /\ submitted = 0
    /\ last_equip = [p \in Players |-> NoEquipCall]
    /\ rules = DefaultRules
    /\ legal = NoLegal
    /\ call = NoCall

\* somebody is inside _run_duel
InRunDuel ==
    \/ processor.pc \in {"set", "run", "clear"}
    \/ \E d \in Duels : duel_thread[d].pc \in {"set", "run", "clear"}

\* _run_duel, "finally: self.current_duel = None" skipped when the duel raised
RunDuelFinallyUnlessError(cd, outcome) ==
    IF outcome = "error" THEN cd ELSE NoDuel

\* _run_duel, "finally: self.current_duel = None": current_duel after the try
\* statement, whether the duel ran to its end or raised
RunDuelFinally(cd, outcome) == NoDuel

\* duel_manager.start()
Start ==
    /\ main.pc = "start"
    /\ running' = TRUE
    /\ main' = [main EXCEPT !.pc = "queue"]
    /\ UNCHANGED <<current_duel, duel_queue, processor, duel_thread>>
    /\ UNCHANGED engineVars

\* duel_manager.queue_duel(player1, player2) with two fighter-class names;
\* quiet records whether no duel was in progress or waiting
QueueDuel ==
    /\ main.pc \in {"queue", "queued"}
    /\ main.queued < MaxDuels
    /\ duel_queue' = Append(duel_queue, main.queued + 1)
    /\ main' = [main EXCEPT !.pc = "queued", !.queued = main.queued + 1,
                            !.quiet = (/\ current_duel = NoDuel
                                       /\ ~InRunDuel
                                       /\ duel_queue = <<>>),
                            !.result = None]
    /\ UNCHANGED <<running, current_duel, processor, duel_thread>>
    /\ UNCHANGED engineVars

\* start_next_duel: if self.current_duel: return False
StartNextDuelInProgress ==
    /\ main.pc = "queued"
    /\ main' = IF current_duel # NoDuel
               THEN [main EXCEPT !.pc = "returned", !.result = FALSE]
               ELSE [main EXCEPT !.pc = "empty"]
    /\ UNCHANGED <<running, current_duel, duel_queue, processor, duel_thread>>
    /\ UNCHANGED engineVars

\* start_next_duel: if self.duel_queue.empty(): return False
StartNextDuelEmpty ==
    /\ main.pc = "empty"
    /\ main' = IF duel_queue = <<>>
               THEN [main EXCEPT !.pc = "returned", !.result = FALSE]
               ELSE [main EXCEPT !.pc = "get"]
    /\ UNCHANGED <<running, current_duel, duel_queue, processor, duel_thread>>
    /\ UNCHANGED engineVars

\* start_next_duel: duel_config = self.duel_queue.get(block=False); queue.Empty
\* is caught by "except Exception", which returns False
StartNextDuelGet ==
    /\ main.pc = "get"
    /\ IF duel_queue = <<>>
       THEN /\ main' = [main EXCEPT !.pc = "returned", !.result = FALSE]
            /\ UNCHANGED duel_queue
       ELSE /\ main' = [main EXCEPT !.pc = "set", !.duel_config = Head(duel_queue)]
            /\ duel_queue' = Tail(duel_queue)
    /\ UNCHANGED <<running, current_duel, processor, duel_thread>>
    /\ UNCHANGED engineVars

\* start_next_duel: the names are fighter classes; self.current_duel = {...}
StartNextDuelSet ==
    /\ main.pc = "set"
    /\ current_duel' = StartedDuel(main.duel_config)
    /\ main' = [main EXCEPT !.pc = "broadcast"]
    /\ UNCHANGED <<running, duel_queue, processor, duel_thread>>
    /\ UNCHANGED engineVars

\* _broadcast_battle_start: if not self.current_duel ...: return
BroadcastBattleStartCheck ==
    /\ main.pc = "broadcast"
    /\ main' = [main EXCEPT !.pc = IF current_duel = NoDuel THEN "thread"
                                   ELSE "players"]
    /\ UNCHANGED <<running, current_duel, duel_queue, processor, duel_thread>>
    /\ UNCHANGED engineVars

\* _broadcast_battle_start: self.current_duel['players'] raises TypeError when
\* current_duel is None by now and KeyError when it is a duel_config;
\* "except Exception" of start_next_duel returns False
BroadcastBattleStartPlayers ==
    /\ main.pc = "players"
    /\ main' = IF current_duel.players
               THEN [main EXCEPT !.pc = "thread"]
               ELSE [main EXCEPT !.pc = "returned", !.result = FALSE]
    /\ UNCHANGED <<running, current_duel, duel_queue, processor, duel_thread>>
    /\ UNCHANGED engineVars

\* start_next_duel: self.duel_thread.start(); return True
StartNextDuelThread ==
    /\ main.pc = "thread"
    /\ duel_thread' = [duel_thread EXCEPT ![main.duel_config].pc = "set"]
    /\ main' = [main EXCEPT !.pc = "returned", !.result = TRUE]
    /\ UNCHANGED <<running, current_duel, duel_queue, processor>>
    /\ UNCHANGED engineVars

\* test_duel.py: "while duel_manager.current_duel: time.sleep(1)" has ended
WaitForDuel ==
    /\ main.pc = "returned"
    /\ main.result = TRUE
    /\ current_duel = NoDuel
    /\ main' = [main EXCEPT !.pc = "queue"]
    /\ UNCHANGED <<running, current_duel, duel_queue, processor, duel_thread>>
    /\ UNCHANGED engineVars

\* server.py: the handler that has queued and started a duel returns without
\* waiting for the duel
HandlerReturns ==
    /\ main.pc = "returned"
    /\ main' = [main EXCEPT !.pc = "queue"]
    /\ UNCHANGED <<running, current_duel, duel_queue, processor, duel_thread>>
    /\ UNCHANGED engineVars

\* duel_manager.stop(), after a duel that could not be started or at the end
Stop ==
    /\ \/ main.pc = "returned" /\ main.result = FALSE
       \/ main.pc = "queue"
    /\ running' = FALSE
    /\ main' = [main EXCEPT !.pc = "stopped"]
    /\ UNCHANGED <<current_duel, duel_queue, processor, duel_thread>>
    /\ UNCHANGED engineVars

\* _process_duels: "not self.duel_queue.empty()" is true (otherwise, and while
\* the manager is not running, the thread sleeps and polls again)
ProcessorPoll ==
    /\ processor.pc = "poll"
    /\ running
    /\ duel_queue # <<>>
    /\ processor' = [processor EXCEPT !.pc = "current"]
    /\ UNCHANGED <<running, current_duel, duel_queue, main, duel_thread>>
    /\ UNCHANGED engineVars

\* _process_duels: "and self.current_duel is None"
ProcessorCurrent ==
    /\ processor.pc = "current"
    /\ processor' = [processor EXCEPT
                        !.pc = IF current_duel = NoDuel THEN "get" ELSE "poll"]
    /\ UNCHANGED <<running, current_duel, duel_queue, main, duel_thread>>
    /\ UNCHANGED engineVars

\* _process_duels: duel_config = self.duel_queue.get(), which blocks while the
\* queue is empty
ProcessorGet ==
    /\ processor.pc = "get"
    /\ duel_queue # <<>>
    /\ processor' = [processor EXCEPT !.pc = "set", !.duel_config = Head(duel_queue)]
    /\ duel_queue' = Tail(duel_queue)
    /\ UNCHANGED <<running, current_duel, main, duel_thread>>
    /\ UNCHANGED engineVars

\* _run_duel in the processor thread: self.current_duel = duel_config
ProcessorSet ==
    /\ processor.pc = "set"
    /\ current_duel' = DuelConfig(processor.duel_config)
    /\ processor' = [processor EXCEPT !.pc = "run"]
    /\ UNCHANGED <<running, duel_queue, main, duel_thread>>
    /\ UNCHANGED engineVars

\* _run_duel in the processor thread: the body of the try statement runs to
\* its end, or raises and "except Exception" handles it
ProcessorRun ==
    /\ processor.pc = "run"
    /\ \E outcome \in {"ok", "error"} :
          processor' = [processor EXCEPT !.pc = "clear", !.outcome = outcome]
    /\ UNCHANGED <<running, current_duel, duel_queue, main, duel_thread>>
    /\ UNCHANGED engineVars

\* _run_duel in the processor thread: finally
ProcessorClear ==
    /\ processor.pc = "clear"
    /\ current_duel' = RunDuelFinally(current_duel, processor.outcome)
    /\ processor' = [processor EXCEPT !.pc = "poll"]
    /\ UNCHANGED <<running, duel_queue, main, duel_thread>>
    /\ UNCHANGED engineVars

\* _run_duel in the thread of duel d: self.current_duel = duel_config
DuelThreadSet(d) ==
    /\ duel_thread[d].pc = "set"
    /\ current_duel' = DuelConfig(d)
    /\ duel_thread' = [duel_thread EXCEPT ![d].pc = "run"]
    /\ UNCHANGED <<running, duel_queue, main, processor>>
    /\ UNCHANGED engineVars

\* _run_duel in the thread of duel d: the body of the try statement
DuelThreadRun(d) ==
    /\ duel_thread[d].pc = "run"
    /\ \E outcome \in {"ok", "error"} :
          duel_thread' = [duel_thread EXCEPT ![d].pc = "clear",
                                             ![d].outcome = outcome]
    /\ UNCHANGED <<running, current_duel, duel_queue, main, processor>>
    /\ UNCHANGED engineVars

\* _run_duel in the thread of duel d: finally; the thread ends
DuelThreadClear(d) ==
    /\ duel_thread[d].pc = "clear"
    /\ current_duel' = RunDuelFinally(current_duel, duel_thread[d].outcome)
    /\ duel_thread' = [duel_thread EXCEPT ![d].pc = "done"]
    /\ UNCHANGED <<running, duel_queue, main, processor>>
    /\ UNCHANGED engineVars

\* the statements of start_next_duel
StartNextDuelStep ==
    \/ StartNextDuelInProgress
    \/ StartNextDuelEmpty
    \/ StartNextDuelGet
    \/ StartNextDuelSet
    \/ BroadcastBattleStartCheck
    \/ BroadcastBattleStartPlayers
    \/ StartNextDuelThread

\* the statements of the processor thread
ProcessorStep ==
    \/ ProcessorPoll
    \/ ProcessorCurrent
    \/ ProcessorGet
    \/ ProcessorSet
    \/ ProcessorRun
    \/ ProcessorClear

\* the statements of the thread of duel d
DuelThreadStep(d) ==
    \/ DuelThreadSet(d)
    \/ DuelThreadRun(d)
    \/ DuelThreadClear(d)

NextManager ==
    \/ Start
    \/ QueueDuel
    \/ StartNextDuelStep
    \/ WaitForDuel
    \/ HandlerReturns
    \/ Stop
    \/ ProcessorStep
    \/ \E d \in Duels : DuelThreadStep(d)

SpecManager == InitManager /\ [][NextManager]_vars

\* a call of start_next_duel runs on to its return, and no thread is suspended
\* for good
SpecManagerFair ==
    /\ SpecManager
    /\ WF_vars(StartNextDuelStep)
    /\ WF_vars(ProcessorStep)
    /\ \A d \in Duels : WF_vars(DuelThreadStep(d))

----------------------------------------------------------------------------
(* Vocabulary of the properties *)

\* the indices of p's queued actions that are due at the tick being processed
DueIndices(p) ==
    {i \in 1..Len(players[p].action_queue) :
        players[p].action_queue[i].execute_on <= current_tick}

\* the earliest-inserted due action of p (DueIndices(p) is not empty)
EarliestDue(p) == CHOOSE i \in DueIndices(p) : \A j \in DueIndices(p) : i <= j

\* process_tick is about to process player idx, who has a due action
ActsNow == pc = "act" /\ DueIndices(idx) # {}

\* the action process_tick is about to execute for player idx
ActionNow == players[idx].action_queue[EarliestDue(idx)]

\* queue q without its i-th element
Without(q, i) == SubSeq(q, 1, i - 1) \o SubSeq(q, i + 1, Len(q))

\* event e is the log entry of player p executing action a
Records(e, p, a) ==
    /\ e.message[2] = p
    /\ CASE a.type \in AttackTypes -> e.message[1] = "attacks" /\ e.message[3] = a.target
         [] a.type = "move" -> e.message[1] = "moved" /\ e.message[3] = a.destination
         [] a.type = "eat" -> e.message[1] = "healed"
         [] OTHER -> FALSE

LastEvent == events[Len(events)]

\* the last log entry is an action of player p executed in the running tick
JustActed(p) ==
    /\ pc \in {"act", "update"}
    /\ Len(events) > 0
    /\ LastEvent.tick = current_tick
    /\ LastEvent.message[1] \in {"attacks", "moved", "healed"}
    /\ LastEvent.message[2] = p

----------------------------------------------------------------------------
(* C1 *)

\* C1: after every process_tick every registered player's hp satisfies
\* 0 <= hp <= max_hp; an attack whose damage exceeds the defender's remaining hp
\* leaves the hp at exactly 0.
C1_HpWithinBounds ==
    pc = "loop" => \A p \in Players : 0 <= players[p].hp /\ players[p].hp <= players[p].max_hp

----------------------------------------------------------------------------
(* C2 *)

\* C2: in every reachable state every player's cooldown is >= 0.
C2_CooldownNonNegative == \A p \in Players : players[p].cooldown >= 0

\* C2, second half: the cooldown-update step of a tick lowers a positive cooldown
\* by exactly 1 and leaves a cooldown of 0 (or less) as it is.
C2_CooldownStep ==
    [][pc = "update" =>
         \A p \in Players :
            players'[p].cooldown = IF players[p].cooldown > 0
                                   THEN players[p].cooldown - 1
                                   ELSE players[p].cooldown]_vars

----------------------------------------------------------------------------
(* C3 *)

\* C3: in one process_tick at most one action leaves each player's action_queue
\* and is executed: a queue shrinks only in the step that processes its player,
\* each player is processed once per tick, and of several due actions the one
\* inserted earliest is the one removed and executed; the others stay queued.
C3_OneEarliestDuePerTick ==
    [][/\ pc # "act" =>
            \A p \in Players :
               Len(players'[p].action_queue) >= Len(players[p].action_queue)
       /\ pc = "act" =>
            /\ pc' = "act" => idx' = idx + 1
            /\ \A o \in Players \ {idx} :
                  players'[o].action_queue = players[o].action_queue
            /\ IF DueIndices(idx) = {}
               THEN players'[idx].action_queue = players[idx].action_queue
                    /\ events' = events
               ELSE /\ players'[idx].action_queue =
                          Without(players[idx].action_queue, EarliestDue(idx))
                    /\ Len(events') = Len(events) + 1
                    /\ Records(events'[Len(events')], idx, ActionNow)]_vars

\* a player has executed an action in the running tick while another action of
\* his, due in this tick and inserted later, is still queued
C3_Witness ==
    \E p \in Players :
       /\ JustActed(p)
       /\ (pc = "update" \/ idx > p)
       /\ DueIndices(p) # {}

----------------------------------------------------------------------------
(* C4 *)

\* the log entries appended by the step being taken
NewEvents == {events'[i] : i \in (Len(events) + 1)..Len(events')}

\* C4: when the terminal check of a tick finds a player with hp <= 0, the duel
\* ends in that tick: duel_active becomes false and an "<opponent> has defeated
\* <player>" entry stamped with the tick is logged; once false, duel_active
\* stays false and the only step left to the driver is to leave the loop, with
\* no player and no log entry changed; and the driver declares the opponent of
\* every player found with hp <= 0 the winner.
C4_EliminationEndsDuel ==
    [][/\ (pc = "update" /\ \E p \in Players : players[p].hp <= 0) =>
            /\ ~duel_active'
            /\ \A p \in Players :
                  players[p].hp <= 0 =>
                     [tick |-> current_tick,
                      message |-> <<"has defeated", Other(p), p>>] \in NewEvents
       /\ ~duel_active =>
            /\ ~duel_active'
            /\ pc = "loop" /\ pc' = "done"
            /\ players' = players /\ events' = events /\ loop_tick' = loop_tick
       /\ pc' = "done" =>
            \A p \in Players : players'[p].hp <= 0 => winner' = Name(Other(p))]_vars

\* C4 without the tick in which both players are brought to hp <= 0: the duel
\* ends in the tick of the terminal check, for good, and when exactly one player
\* has hp <= 0 the driver declares the other one the winner.
C4_SingleEliminationEndsDuel ==
    [][/\ (pc = "update" /\ \E p \in Players : players[p].hp <= 0) =>
            ~duel_active'
       /\ ~duel_active =>
            /\ ~duel_active'
            /\ pc = "loop" /\ pc' = "done"
            /\ players' = players /\ events' = events /\ loop_tick' = loop_tick
       /\ pc' = "done" =>
            \A p \in Players :
               (players'[p].hp <= 0 /\ players'[Other(p)].hp > 0) =>
                  winner' = Name(Other(p))]_vars

\* both players were brought to hp <= 0 in one tick; the duel has ended and the
\* driver has declared a winner whose hp is <= 0
C4_BothEliminated ==
    /\ pc = "done"
    /\ \A p \in Players : players[p].hp <= 0
    /\ \E p \in Players : winner = Name(p)

----------------------------------------------------------------------------
(* C5 *)

\* C5: if max_ticks ticks have been processed and no player has hp <= 0, the
\* outcome is a draw.
C5_DrawAtMaxTicks ==
    (pc = "done" /\ loop_tick = MaxTicks /\ \A p \in Players : players[p].hp > 0)
        => winner = "draw"

\* C5 restricted to the driver of src/main.py, where it holds
C5_DrawAtMaxTicksMain == driver = "main" => C5_DrawAtMaxTicks

----------------------------------------------------------------------------
(* C7 *)

\* process_tick is about to execute an attack of player idx
AttacksNow == ActsNow /\ ActionNow.type \in AttackTypes

\* the distance between player idx and the target of his attack
AttackDistance ==
    Distance(players[idx].position, players[ActionNow.target].position)

\* C7: an attack resolved at Manhattan distance 2 or more deals 0 damage and
\* leaves the defender's hp and the attacker's cooldown unchanged, whatever the
\* attacker's cooldown and the random draws.
C7_OutOfRangeAttack ==
    [][(AttacksNow /\ AttackDistance >= 2) =>
          /\ players'[ActionNow.target].hp = players[ActionNow.target].hp
          /\ players'[idx].cooldown = players[idx].cooldown
          /\ events'[Len(events')].message = <<"attacks", idx, ActionNow.target, 0>>]_vars

\* an attacker whose cooldown is running has just attacked a defender 2 or more
\* cells away: 0 damage, and his cooldown is still running
C7_Witness ==
    \E p \in Players :
       /\ JustActed(p)
       /\ LastEvent.message = <<"attacks", p, Other(p), 0>>
       /\ Distance(players[p].position, players[Other(p)].position) >= 2
       /\ players[p].cooldown > 0

----------------------------------------------------------------------------
(* C8 *)

\* C8 as stated: immediately after any in-range attack attempt is resolved, the
\* attacker's cooldown equals his effective attack_speed.
C8_CooldownAfterAnyInRangeAttack ==
    [][(AttacksNow /\ AttackDistance <= 1) =>
          players'[idx].cooldown = players'[idx].effective_stats["attack_speed"]]_vars

\* C8 amended: an in-range attack attempted with cooldown 0, hit or miss, leaves
\* the attacker's cooldown at his weapon_speed, which is his effective
\* attack_speed unless the driver has overwritten it (duelsim/main.py); an
\* in-range attack attempted with another cooldown leaves the cooldown as it is.
C8_CooldownAfterInRangeAttack ==
    [][(AttacksNow /\ AttackDistance <= 1) =>
          IF players[idx].cooldown = 0
          THEN /\ players'[idx].cooldown = players[idx].weapon_speed
               /\ driver = "main" =>
                     players'[idx].cooldown = players'[idx].effective_stats["attack_speed"]
          ELSE players'[idx].cooldown = players[idx].cooldown]_vars

\* an in-range attack has just missed and the attacker's cooldown is his
\* (positive) weapon_speed
C8_Witness ==
    \E p \in Players :
       /\ JustActed(p)
       /\ LastEvent.message = <<"attacks", p, Other(p), 0>>
       /\ Distance(players[p].position, players[Other(p)].position) <= 1
       /\ players[p].weapon_speed > 0
       /\ players[p].cooldown = players[p].weapon_speed

----------------------------------------------------------------------------
(* C9 *)

\* the sum of the deltas on stat s of the items among the slots S of equipment eq
RECURSIVE SumOfDeltas(_, _, _)
SumOfDeltas(eq, s, S) ==
    IF S = {} THEN 0
    ELSE LET slot == CHOOSE x \in S : TRUE
             delta == IF eq[slot] # None /\ s \in DOMAIN Item(eq[slot]).stats
                      THEN Item(eq[slot]).stats[s]
                      ELSE 0
         IN delta + SumOfDeltas(eq, s, S \ {slot})

\* C9: after any sequence of equip_item and unequip_item calls, every stat of
\* effective_stats equals the base_stats value plus the sum of that stat's deltas
\* over the items currently equipped.
C9_EffectiveStatsAreBasePlusEquipped ==
    \A p \in Players, s \in StatNames :
       players[p].effective_stats[s] =
          players[p].base_stats[s] + SumOfDeltas(players[p].equipment, s, Slots)

\* after an equip and an unequip a player holds two items with deltas on the
\* same stat, and his last call was an unequip that removed an item
C9_Witness ==
    \E p \in Players :
       /\ last_equip[p].stage = "unequipped"
       /\ players[p].equipment["ring"] = "Ring"
       /\ players[p].equipment["amulet"] = "Amulet"
       /\ players[p].equipment["weapon"] = None

----------------------------------------------------------------------------
(* C10 *)

\* C10 as stated: equip_item(item) followed by unequip_item of the item's slot
\* leaves effective_stats equal to its value before the equip, also when the
\* slot held another item before the equip.
C10_EquipUnequipRestores ==
    \A p \in Players :
       last_equip[p].stage = "unequipped" =>
          players[p].effective_stats = last_equip[p].before

\* the delta on stat s of the item an equip displaced
DisplacedDelta(p, s) ==
    IF last_equip[p].displaced # None
       /\ s \in DOMAIN Item(last_equip[p].displaced).stats
    THEN Item(last_equip[p].displaced).stats[s]
    ELSE 0

\* C10 amended: equip_item(item) followed by unequip_item of the item's slot
\* leaves effective_stats equal to its value before the equip when the slot was
\* empty before the equip; when the slot held an item, that item is gone and
\* effective_stats is the value before the equip less that item's deltas.
C10_EquipUnequipRestoresEmptySlot ==
    \A p \in Players :
       last_equip[p].stage = "unequipped" =>
          \A s \in StatNames :
             players[p].effective_stats[s] = last_equip[p].before[s] - DisplacedDelta(p, s)

\* an item was equipped into an empty slot next to another equipped item and
\* unequipped again, and effective_stats is what it was before the equip
C10_Witness ==
    \E p \in Players :
       /\ last_equip[p].stage = "unequipped"
       /\ last_equip[p].displaced = None
       /\ last_equip[p].slot = "weapon"
       /\ players[p].equipment["ring"] = "Ring"
       /\ players[p].effective_stats = last_equip[p].before

----------------------------------------------------------------------------
(* C11 *)

\* the actions of the given type in the list returned last
LegalOfType(t) ==
    {i \in 1..Len(legal.actions) : legal.actions[i].type = t}

\* C11: a call of get_legal_actions changes nothing (no player, not the game
\* state, not the rules), and a further call on the unchanged state returns the
\* list the call before it returned.
C11_GetLegalActionsIsPure ==
    [][legal'.player # 0 =>
          /\ players' = players
          /\ rules' = rules
          /\ <<current_tick, duel_active, events>>' = <<current_tick, duel_active, events>>
          /\ legal.player = legal'.player => legal'.actions = legal.actions]_vars

\* a call has returned attacks, moves and a meal for a player standing in a
\* corner of a 2 x 2 arena that the configuration sets
C11_Witness ==
    /\ legal.player = 1
    /\ rules.arena_size = <<2, 2>>
    /\ LegalOfType("attack_melee") # {}
    /\ Cardinality(LegalOfType("move")) = 2
    /\ LegalOfType("eat") # {}

----------------------------------------------------------------------------
(* C12 *)

\* C12: the list get_legal_actions returns holds an attack of a kind only if
\* the player's cooldown is 0 and the allow flag of that kind is set; with a
\* cooldown > 0 it holds no attack at all.
C12_AttackOnlyWhenReady ==
    legal.player # 0 =>
       LET pl == players[legal.player]
       IN /\ LegalOfType("attack_melee") # {} => pl.cooldown = 0 /\ rules.allow_melee
          /\ LegalOfType("attack_ranged") # {} => pl.cooldown = 0 /\ rules.allow_ranged
          /\ LegalOfType("attack_magic") # {} => pl.cooldown = 0 /\ rules.allow_magic
          /\ pl.cooldown > 0 =>
                \A i \in 1..Len(legal.actions) : legal.actions[i].type \notin AttackTypes

\* a player with cooldown 0 was offered the melee attack the rules allow and not
\* the ranged attack they forbid
C12_Witness ==
    /\ legal.player = 2
    /\ players[2].cooldown = 0
    /\ rules.allow_melee /\ ~rules.allow_ranged
    /\ LegalOfType("attack_melee") # {}
    /\ LegalOfType("attack_ranged") = {}

----------------------------------------------------------------------------
(* C13 *)

\* C13: with no_movement the list holds no move; otherwise it holds at most 4
\* moves, each to a cardinal neighbour of the player's position that is inside
\* the arena and is not the position of another player.
C13_MovesAreFreeNeighbours ==
    legal.player # 0 =>
       LET p == legal.player
           arena == ArenaSize(rules)
       IN /\ rules.no_movement => LegalOfType("move") = {}
          /\ Cardinality(LegalOfType("move")) <= 4
          /\ \A i \in LegalOfType("move") :
                LET c == legal.actions[i].destination
                IN /\ Distance(c, players[p].position) = 1
                   /\ 0 <= c[1] /\ c[1] < arena.width
                   /\ 0 <= c[2] /\ c[2] < arena.height
                   /\ c # players[Other(p)].position

\* a player in the far corner of the 2 x 2 arena, the other player on one of the
\* two neighbouring cells, was offered the one move that is left
C13_Witness ==
    /\ legal.player = 1
    /\ rules.arena_size = <<2, 2>>
    /\ players[1].position = <<1, 1>>
    /\ players[2].position = <<1, 0>>
    /\ Cardinality(LegalOfType("move")) = 1
    /\ \A i \in LegalOfType("move") : legal.actions[i].destination = <<0, 1>>

----------------------------------------------------------------------------
(* C14 *)

\* C14: the list holds exactly one meal when no_food is false and hp < max_hp,
\* with heal_amount = min(25, max_hp - hp), and no meal otherwise; executing
\* that meal never raises hp above max_hp.
C14_OneBoundedMeal ==
    [][/\ legal'.player # 0 =>
            LET pl == players'[legal'.player]
                meals == {i \in 1..Len(legal'.actions) : legal'.actions[i].type = "eat"}
            IN IF ~rules'.no_food /\ pl.hp < pl.max_hp
               THEN /\ Cardinality(meals) = 1
                    /\ \A i \in meals :
                          legal'.actions[i].heal_amount = Min(25, pl.max_hp - pl.hp)
               ELSE meals = {}
       /\ (legal.player # 0 /\ legal'.player = 0) =>
            LET p == legal.player
            IN /\ players'[p].hp <= players'[p].max_hp
               /\ \A i \in LegalOfType("eat") :
                     players'[p].hp = players[p].hp + legal.actions[i].heal_amount]_vars

\* a player 15 short of max_hp has eaten the meal of 15 that was offered and is
\* at max_hp
C14_Witness ==
    \E p \in Players :
       /\ pc = "rules"
       /\ Len(events) > 0
       /\ LastEvent.message = <<"healed", p, 15>>
       /\ players[p].hp = players[p].max_hp

----------------------------------------------------------------------------
(* C15 *)

\* player p carries an item with poison_chance 100
AlwaysPoisons(p) ==
    \E i \in 1..Len(GetSpecialEffects(players[p], 1)) :
       /\ GetSpecialEffects(players[p], 1)[i].effect = "poison_chance"
       /\ GetSpecialEffects(players[p], 1)[i].value = 100

\* C15: when the attacker carries poison_chance 100, every hit (base damage
\* above 0) schedules the three poison effects of the following ticks: the
\* damage calculation that schedules them completes without an error and
\* reports the poisoning among the effects it triggered.
C15_HitSchedulesPoison ==
    (/\ call.op = "calculate_damage"
     /\ AlwaysPoisons(call.attacker)
     /\ call.base_damage > 0)
    => /\ call.raised = None
       /\ \E i \in 1..Len(call.effects_triggered) : call.effects_triggered[i] = "poison"

----------------------------------------------------------------------------
(* C16 *)

\* C16: a poison effect that comes due when its target's hp is 0 or less does
\* nothing: the players (the target's hp among them) and the event log are as
\* before and no error is raised, however often it happens.
C16_DuePoisonOnEliminatedIsNoOp ==
    [][(/\ call'.n = call.n + 1
        /\ call'.op = "apply_poison_damage"
        /\ players[call'.target].hp <= 0)
       => /\ players' = players
          /\ events' = events
          /\ call'.raised = None]_vars

\* a poison effect has come due on a target whose hp was 0 or less already, as
\* the last of several calls, and has returned
C16_Witness ==
    /\ call.op = "apply_poison_damage"
    /\ call.n = MaxCalls
    /\ call.raised = None
    /\ players[call.target].hp <= 0

----------------------------------------------------------------------------
(* C17 *)

\* the entries of the log that record a player's action
ActionEvents == {"attacks", "moved", "healed"}

\* C17: within one tick the due actions are executed in the order of
\* registration, and the action of the later player is resolved against the
\* state the earlier player's action has left: in the log of a tick the action
\* of player 1 comes before the action of player 2, and an attack of player 2
\* right after a move of player 1 in the same tick is an in-range attack (it
\* starts player 2's cooldown, and only then can it cost player 1 hp) exactly
\* when the destination of that move, not the cell player 1 started from, is
\* within distance 1 and player 2's cooldown is 0.
C17_RegistrationOrder ==
    [][(ActsNow /\ idx = 2) =>
          /\ \A i \in 1..Len(events') :
                (events'[i].tick = current_tick /\ events'[i].message[1] \in ActionEvents
                 /\ i < Len(events'))
                => events'[i].message[2] = 1
          /\ Records(events'[Len(events')], 2, ActionNow)
          /\ (/\ ActionNow.type \in AttackTypes
              /\ JustActed(1)
              /\ LastEvent.message[1] = "moved")
             => IF /\ Distance(LastEvent.message[3], players[2].position) <= 1
                   /\ players[2].cooldown = 0
                THEN players'[2].cooldown = players[2].weapon_speed
                ELSE /\ players'[1].hp = players[1].hp
                     /\ players'[2].cooldown = players[2].cooldown]_vars

\* player 1 has started a tick 2 cells from player 2, has moved next to him, and
\* player 2's attack of the same tick has hit him
C17_Witness ==
    /\ JustActed(2)
    /\ Len(events) >= 2
    /\ LastEvent.message[1] = "attacks"
    /\ LastEvent.message[4] > 0
    /\ events[Len(events) - 1].tick = current_tick
    /\ events[Len(events) - 1].message = <<"moved", 1, <<1, 0>>>>
    /\ players[2].position = <<1, 1>>

----------------------------------------------------------------------------
(* C18 *)

\* C18: from the moment a player's hp is 0 or less, no player's hp, position,
\* cooldown or action queue changes any more; in particular a player brought to
\* hp 0 or less earlier in a tick does not execute his due action later in it.
C18_NoMutationAfterElimination ==
    [][(\E q \in Players : players[q].hp <= 0) =>
          \A p \in Players :
             /\ players'[p].hp = players[p].hp
             /\ players'[p].position = players[p].position
             /\ players'[p].cooldown = players[p].cooldown
             /\ players'[p].action_queue = players[p].action_queue]_vars

----------------------------------------------------------------------------
(* C19 *)

\* C19: when several queued actions of one player are due in the same tick, the
\* earliest queued one is executed and every other due one is removed from the
\* queue in that tick, each with an event in the log.
C19_OtherDueActionsDiscarded ==
    [][(ActsNow /\ Cardinality(DueIndices(idx)) >= 2) =>
          /\ \A i \in 1..Len(players'[idx].action_queue) :
                players'[idx].action_queue[i].execute_on > current_tick
          /\ Len(events') = Len(events) + Cardinality(DueIndices(idx))]_vars

----------------------------------------------------------------------------
(* C20 *)

\* C20: an attack whose target's hp is 0 or less already does nothing to the
\* players (the target's hp and the attacker's cooldown are as before), logs
\* one informational event and raises no error.
C20_AttackOnEliminatedIsNoOp ==
    [][(/\ call'.n = call.n + 1
        /\ call'.op = "execute_action"
        /\ players[call'.target].hp <= 0)
       => /\ players'[call'.target].hp = players[call'.target].hp
          /\ players'[call'.attacker].cooldown = players[call'.attacker].cooldown
          /\ Len(events') = Len(events) + 1
          /\ call'.raised = None]_vars

----------------------------------------------------------------------------
(* C21 *)

\* the action lacks its type, an attack its target or a move its destination
Malformed(action) ==
    \/ action.type = None
    \/ action.type \in AttackTypes /\ "target" \notin DOMAIN action
    \/ action.type = "move" /\ "destination" \notin DOMAIN action

\* C21: executing a malformed action (no type, an attack without a target, a
\* move without a destination) raises no error and changes no player: the
\* action is dropped with one warning event.
C21_MalformedActionDropped ==
    [][(/\ call'.n = call.n + 1
        /\ call'.op = "execute_action"
        /\ Malformed(call'.action))
       => /\ call'.raised = None
          /\ players' = players
          /\ Len(events') = Len(events) + 1]_vars

----------------------------------------------------------------------------
(* C22 *)

\* C22: an action whose kind is_action_allowed rejects when it comes due is not
\* executed: no player changes, one informational event is logged and no error
\* is raised.
C22_DisallowedActionNotExecuted ==
    [][(/\ call'.n = call.n + 1
        /\ call'.op = "execute_action"
        /\ ~Malformed(call'.action)
        /\ ~IsActionAllowed(rules, call'.action.type))
       => /\ call'.raised = None
          /\ players' = players
          /\ Len(events') = Len(events) + 1]_vars

----------------------------------------------------------------------------
(* C23 *)

\* the place of an offensive effect in the order critical_chance, life_steal,
\* double_strike, poison_chance; 0 for an effect of the defender
OffensiveRank(triggered) ==
    CASE triggered = "critical_hit" -> 1
      [] triggered = "life_steal" -> 2
      [] triggered = "double_strike" -> 3
      [] triggered = "poison" -> 4
      [] OTHER -> 0

\* calculate_damage has just returned
DamageCalculated == call.op = "calculate_damage" /\ call.raised = None

\* C23: the offensive effects of an attack are applied in the order
\* critical_chance, life_steal, double_strike, poison_chance, whatever the order
\* in which the attacker's equipment lists them: of two offensive effects that
\* were triggered, the one earlier in that order was applied first.
C23_OffensiveEffectsInFixedOrder ==
    DamageCalculated =>
       \A i, j \in 1..Len(call.effects_triggered) :
          (/\ i < j
           /\ OffensiveRank(call.effects_triggered[i]) > 0
           /\ OffensiveRank(call.effects_triggered[j]) > 0)
          => OffensiveRank(call.effects_triggered[i])
                <= OffensiveRank(call.effects_triggered[j])

----------------------------------------------------------------------------
(* C24 *)

\* C24: the defensive effects are applied after all offensive effects, and when
\* dodge_chance triggers the damage returned is 0 and no defensive effect is
\* applied after the dodge: the dodge is the last effect triggered.
C24_DodgeZeroesAndEnds ==
    DamageCalculated =>
       /\ \A i, j \in 1..Len(call.effects_triggered) :
             (i < j /\ OffensiveRank(call.effects_triggered[i]) = 0)
             => OffensiveRank(call.effects_triggered[j]) = 0
       /\ \A i \in 1..Len(call.effects_triggered) :
             call.effects_triggered[i] = "dodge"
             => call.damage = 0 /\ i = Len(call.effects_triggered)

\* a hit that triggered an offensive effect of the attacker has been dodged by
\* a defender whose equipment lists a reflection after the dodge
C24_Witness ==
    /\ DamageCalculated
    /\ call.base_damage > 0
    /\ Len(call.effects_triggered) >= 2
    /\ OffensiveRank(call.effects_triggered[1]) > 0
    /\ call.effects_triggered[Len(call.effects_triggered)] = "dodge"
    /\ players[call.target].equipment["amulet"] = "Amulet"

----------------------------------------------------------------------------
(* C25 *)

\* C25: damage_reflection costs the attacker hp only when the final damage of
\* the attack is above 0: when apply_special_effects returns damage 0, no
\* reflection has been applied.
C25_NoReflectionOfZeroDamage ==
    (DamageCalculated /\ call.damage = 0) =>
       \A i \in 1..Len(call.effects_triggered) :
          call.effects_triggered[i] # "damage_reflection"

----------------------------------------------------------------------------
(* C26 *)

\* C26: the event log is append-only and ordered: every step keeps the entries
\* that are there, in place and unchanged, and only adds entries behind them;
\* an added entry carries the tick in which it was produced, and no entry
\* carries a smaller tick than the entry before it.
C26_LogAppendOnly ==
    [][/\ Len(events') >= Len(events)
       /\ SubSeq(events', 1, Len(events)) = events
       /\ \A i \in (Len(events) + 1)..Len(events') :
             /\ events'[i].tick = current_tick'
             /\ i > 1 => events'[i - 1].tick <= events'[i].tick]_vars

\* the log holds entries of two ticks, and the running tick has added
\* several entries to it
C26_Witness ==
    /\ Len(events) >= 3
    /\ events[1].tick < LastEvent.tick
    /\ events[Len(events) - 1].tick = LastEvent.tick

----------------------------------------------------------------------------
(* C27 *)

----------------------------------------------------------------------------
(* C28 *)

\* the positions in the log of the victory and draw events
FinalEvents == {i \in 1..Len(events) : events[i].type \in {"victory", "draw"}}

\* C28: the result of the package's run_duel_simulation names as winner
\* fighter 1, fighter 2 or "draw": fighter 2 exactly when fighter 1's hp is 0
\* or less at the end, fighter 1 exactly when fighter 2's hp is 0 or less, and
\* "draw" exactly when both are above 0; exactly one victory or draw event is
\* logged, and it is the last event.
C28_WinnerMatchesHp ==
    IF pc = "package_done"
    THEN /\ winner \in {players[1].name, players[2].name, "draw"}
         /\ winner = players[2].name <=> players[1].current_hp <= 0
         /\ winner = players[1].name <=> players[2].current_hp <= 0
         /\ winner = "draw" <=> (players[1].current_hp > 0 /\ players[2].current_hp > 0)
         /\ FinalEvents = {Len(events)}
         /\ LastEvent.type = "draw" <=> winner = "draw"
    ELSE pc = "package" => FinalEvents = {}

\* a simulation has ended with fighter 1 brought to hp 0 or less
C28_Witness ==
    /\ pc = "package_done"
    /\ players[1].current_hp <= 0
    /\ winner = "Fighter2"
    /\ LastEvent.type = "victory"

----------------------------------------------------------------------------
(* C29 *)

\* C29: on a started DuelManager with no duel in progress, start_next_duel
\* called after queue_duel with two fighter-class names returns True and starts
\* the queued duel, however the processor thread is interleaved with the call.
C29_StartNextDuelStartsQueuedDuel ==
    (main.pc = "returned" /\ main.quiet) =>
       /\ main.result = TRUE
       /\ duel_thread[main.queued].pc # "unborn"

----------------------------------------------------------------------------
(* C30 *)

----------------------------------------------------------------------------
(* C31 *)

\* the log entry execute_action appends at the running tick when player a
\* attacks d in range (distance 0, cooldown 0) and the accuracy roll fails
MissedAttackEvent(a, d) ==
    LET ps == [players EXCEPT ![a].position = players[d].position,
                              ![a].cooldown = 0]
        r == ExecuteAction(ps, <<>>, current_tick, a,
                           [type |-> "attack", target |-> d], FALSE, 0)
    IN r.events[1]

\* C31: an attack executed out of range appends to the event log an event that
\* differs from the event of an in-range attack of the same attacker on the
\* same target that missed.
C31_OutOfRangeEventDistinct ==
    [][(AttacksNow /\ AttackDistance >= 2) =>
          /\ Len(events') = Len(events) + 1
          /\ events'[Len(events')] # MissedAttackEvent(idx, ActionNow.target)]_vars

----------------------------------------------------------------------------
(* C32 *)

\* the driver is inside a tick
InTick == pc \in {"act", "update"}

\* C32: a tick is atomic: the loop halts only where its condition is examined,
\* between two ticks; once a tick has started, the pass of every registered
\* player is made, then the cooldowns are updated and the terminal conditions
\* are evaluated, and only then the driver is back at the top of the loop.
C32_TickIsAtomic ==
    [][/\ (pc = "act" /\ idx < Cardinality(Players)) =>
             (pc' = "act" /\ idx' = idx + 1)
       /\ (pc = "act" /\ idx = Cardinality(Players)) => pc' = "update"
       /\ pc = "update" => pc' = "loop"
       /\ (InTick' /\ ~InTick) => (pc = "loop" /\ LoopCondition)
       /\ (~InTick' /\ pc' # "loop") => (pc = "loop" /\ ~LoopCondition)]_vars

----------------------------------------------------------------------------
(* C33 *)

\* an attack executed while the attacker's cooldown is positive changes neither
\* the defender's hp nor the attacker's cooldown
AttackOnCooldownIsNoOp ==
    (AttacksNow /\ players[idx].cooldown > 0) =>
       /\ players'[ActionNow.target].hp = players[ActionNow.target].hp
       /\ players'[idx].cooldown = players[idx].cooldown

\* the ticks in which an attack of player p was carried out
IsAttack(e) == e.attack
AttackTicks(p) ==
    LET attacks == SelectSeq(executed[p], IsAttack)
    IN [i \in 1..Len(attacks) |-> attacks[i].tick]

\* two attacks carried out for a player whose effective attack_speed is
\* s >= 1 are at least s ticks apart
SpacedByAttackSpeed ==
    \A p \in Players : \A i \in 1..(Len(AttackTicks(p)) - 1) :
       players[p].effective_stats["attack_speed"] >= 1 =>
          AttackTicks(p)[i + 1] >=
             AttackTicks(p)[i] + players[p].effective_stats["attack_speed"]

\* two attacks carried out for a player whose weapon_speed is s >= 1 are at
\* least s ticks apart
SpacedByWeaponSpeed ==
    \A p \in Players : \A i \in 1..(Len(AttackTicks(p)) - 1) :
       players[p].weapon_speed >= 1 =>
          AttackTicks(p)[i + 1] >= AttackTicks(p)[i] + players[p].weapon_speed

----------------------------------------------------------------------------
(* C34 *)

\* C34: a queued action is never executed in a tick earlier than its
\* execute_on tick: a queue shrinks and an action event is logged only in the
\* pass of its player, by one action whose execute_on is at most the tick; and
\* a due action ahead of which only actions that are not yet due are queued is
\* the one removed and executed in that pass.
C34_ExecutedWhenDue ==
    [][/\ pc # "act" =>
            \A p \in Players :
               Len(players'[p].action_queue) >= Len(players[p].action_queue)
       /\ pc = "act" =>
            LET queue == players[idx].action_queue
            IN /\ (players'[idx].action_queue # queue \/ events' # events) =>
                     \E i \in 1..Len(queue) :
                        /\ queue[i].execute_on <= current_tick
                        /\ players'[idx].action_queue = Without(queue, i)
                        /\ Len(events') = Len(events) + 1
                        /\ Records(events'[Len(events')], idx, queue[i])
               /\ \A i \in 1..Len(queue) :
                     (/\ queue[i].execute_on <= current_tick
                      /\ \A j \in 1..(i - 1) : queue[j].execute_on > current_tick)
                     => /\ players'[idx].action_queue = Without(queue, i)
                        /\ Len(events') = Len(events) + 1
                        /\ events'[Len(events')].tick = current_tick
                        /\ Records(events'[Len(events')], idx, queue[i])]_vars

\* a player has executed in the running tick the action that was second in his
\* queue, and the action that was ahead of it is still queued and not yet due
C34_Witness ==
    \E p \in Players :
       /\ JustActed(p)
       /\ executed[p] # <<>>
       /\ executed[p][Len(executed[p])].tick = current_tick
       /\ executed[p][Len(executed[p])].index = 2
       /\ players[p].action_queue # <<>>
       /\ players[p].action_queue[1].execute_on > current_tick

----------------------------------------------------------------------------
(* C35 *)

\* C35: calculate_base_damage called for an attacker and a defender whose
\* effective attack and effective defense add up to 0 raises no error: it
\* returns a damage.
C35_NoDivisionByZero ==
    (/\ call.op = "calculate_base_damage"
     /\ players[call.attacker].effective_stats["attack"]
           + players[call.target].effective_stats["defense"] = 0)
    => call.raised = None

----------------------------------------------------------------------------
(* C36 *)

\* C36: in the package's run_duel_simulation an attack event, hit or miss, is
\* logged only in a tick in which the Manhattan distance between the fighters
\* is at most 1, and at Manhattan distance 2 no fighter loses hp.
C36_PackageAttackOnlyAdjacent ==
    [][pc = "package" =>
          LET distance == Distance(players[1].position, players[2].position)
          IN /\ (/\ Len(events') > Len(events)
                 /\ events'[Len(events) + 1].type = "attack") => distance <= 1
             /\ distance = 2 =>
                   \A p \in Players : players'[p].current_hp = players[p].current_hp]_vars

----------------------------------------------------------------------------
(* C37 *)

\* C37: players that start on different cells and queue only moves returned by
\* get_legal_actions never stand on the same cell.
C37_NeverOnSameCell == players[1].position # players[2].position

----------------------------------------------------------------------------
(* C38 *)

\* the "<opponent> has defeated <player>" entries of the log
DefeatEvents == {i \in 1..Len(events) : events[i].message[1] = "has defeated"}

\* C38: when a duel has ended by elimination exactly one player has hp <= 0,
\* exactly one defeat event is in the log, and the player declared the winner
\* has hp > 0.
C38_OneLoserOneDefeatEvent ==
    (pc = "done" /\ ~duel_active) =>
       /\ Cardinality({p \in Players : players[p].hp <= 0}) = 1
       /\ Cardinality(DefeatEvents) = 1
       /\ \A p \in Players : winner = Name(p) => players[p].hp > 0

----------------------------------------------------------------------------
(* C39 *)

\* C39: an attack that misses (base damage 0) schedules no poison effect,
\* whatever the attacker's poison_chance: the damage calculation does not reach
\* the scheduling of the poison, so it completes and reports no poisoning.
C39_MissSchedulesNoPoison ==
    (/\ call.op = "calculate_damage"
     /\ call.base_damage = 0
     /\ call.attacker # 0)
    => /\ call.raised = None
       /\ \A i \in 1..Len(call.effects_triggered) : call.effects_triggered[i] # "poison"

----------------------------------------------------------------------------
(* C40 *)

\* the threads that are inside _run_duel, and those that are running the duel
\* (inside the try statement, before "finally")
ThreadsInRunDuel ==
    {d \in Duels : duel_thread[d].pc \in {"set", "run", "clear"}}
    \cup (IF processor.pc \in {"set", "run", "clear"} THEN {0} ELSE {})
ThreadsRunningDuel ==
    {d \in Duels : duel_thread[d].pc \in {"set", "run"}}
    \cup (IF processor.pc \in {"set", "run"} THEN {0} ELSE {})

\* C40: DuelManager runs at most one duel at a time: _run_duel is never
\* executing in two threads at once, and current_duel is never reset to None
\* while a thread is still running a duel.
C40_OneDuelAtATime ==
    [][/\ Cardinality(ThreadsInRunDuel') <= 1
       /\ (current_duel # NoDuel /\ current_duel' = NoDuel) =>
             ThreadsRunningDuel' = {}]_vars

====
